---- MODULE Spec2Model ----
(***************************************************************************)
(* A model of SDL's bandlimited audio resampler                            *)
(* (src/audio/SDL_audioresample.c): the 32.32 fixed-point phase            *)
(* arithmetic, the planning helpers with their saturating add/multiply,    *)
(* and the resample driver with the frames and filter rows it visits.      *)
(*                                                                         *)
(* Word widths are scaled.  The code keeps a phase in a signed 64-bit      *)
(* word: 32 fraction bits below 32 integer bits, the integer part being    *)
(* exactly one Sint32/int.  Here the fraction has FracBits bits and the    *)
(* integer part IndexBits bits, so "Sint64" is a signed word of            *)
(* FracBits + IndexBits bits and "Sint32"/"int" one of IndexBits bits.     *)
(* Every shift, mask, cast and overflow test is written on these widths    *)
(* exactly as the code writes it on 32 and 64.                             *)
(***************************************************************************)
EXTENDS Integers, Sequences, FiniteSets, Bags, TLC

(* ------------------------------------------------------------------ *)
(* Bounds of the model                                                 *)
(* ------------------------------------------------------------------ *)

\* Fraction bits of a phase (32 in the code).
FracBits == 4

\* Integer bits of a phase, the width of Sint32 and int (32 in the code).
IndexBits == 5

\* RESAMPLER_BITS_PER_SAMPLE (16 in the code), scaled so that the row bits
\* stay below FracBits.
RESAMPLER_BITS_PER_SAMPLE == 2

\* Largest outframes a modelled driver call asks for.
MaxOutFrames == 3

\* Largest inframes a caller that does not plan passes to the driver.
MaxInFrames == 3

\* Largest small frame count handed to the planning helpers.
MaxPlanFrames == 4

\* Largest sample rate (scaled Hz) on either side of a conversion.
MaxSampleRate == 3

\* Most calls of SDL_SetupAudioResampler in one run.
MaxSetupCalls == 2

\* Most output frames of a driver call whose kernel calls are recorded.
MaxKernelFrames == 1

\* Threads inside the driver at the same time.
MaxThreads == 2

(* ------------------------------------------------------------------ *)
(* Program constants                                                   *)
(* ------------------------------------------------------------------ *)

RESAMPLER_ZERO_CROSSINGS == 5

RESAMPLER_MAX_PADDING_FRAMES == RESAMPLER_ZERO_CROSSINGS + 1

RESAMPLER_SAMPLES_PER_FRAME == RESAMPLER_ZERO_CROSSINGS * 2

RESAMPLER_BITS_PER_ZERO_CROSSING == (RESAMPLER_BITS_PER_SAMPLE \div 2) + 1

RESAMPLER_SAMPLES_PER_ZERO_CROSSING == 2 ^ RESAMPLER_BITS_PER_ZERO_CROSSING

RESAMPLER_FILTER_INTERP_BITS == FracBits - RESAMPLER_BITS_PER_ZERO_CROSSING

RESAMPLER_FILTER_INTERP_RANGE == 2 ^ RESAMPLER_FILTER_INTERP_BITS

\* Entries of the kernel dispatch table ResampleFrame[8].
ResampleFrameEntries == 8

\* The fraction bits of a rate and of a phase at the width of the code.
RateFracBits == 32

(* ------------------------------------------------------------------ *)
(* Fixed-width integers                                                *)
(* ------------------------------------------------------------------ *)

SintBits == FracBits + IndexBits

\* 0x100000000, one input frame in 32.32 fixed point.
One == 2 ^ FracBits

SDL_MAX_SINT64 == 2 ^ (SintBits - 1) - 1

SDL_MIN_SINT64 == -(2 ^ (SintBits - 1))

SDL_MAX_SINT32 == 2 ^ (IndexBits - 1) - 1

SDL_MIN_SINT32 == -(2 ^ (IndexBits - 1))

IsSint64(x) == SDL_MIN_SINT64 <= x /\ x <= SDL_MAX_SINT64

\* The two's-complement word a build leaves when a signed result leaves
\* the range; every use is paired with a "ub" flag.
Wrap64(x) == ((x - SDL_MIN_SINT64) % (2 ^ SintBits)) + SDL_MIN_SINT64

\* A cast to a word one bit narrower than Sint32.
ToSint32_Narrow(x) ==
    ((x - (SDL_MIN_SINT32 \div 2)) % (2 ^ (IndexBits - 1))) + (SDL_MIN_SINT32 \div 2)

\* (Sint32)x : keep the low IndexBits bits, reinterpret as signed.
ToSint32(x) == ((x - SDL_MIN_SINT32) % (2 ^ IndexBits)) + SDL_MIN_SINT32

\* x >> k on a signed word (arithmetic shift).
ShiftRight(x, k) == x \div (2 ^ k)

\* C's a / b, truncating toward zero.
CDiv(a, b) ==
    IF (a >= 0) = (b > 0)
    THEN (IF a >= 0 THEN a ELSE -a) \div (IF b > 0 THEN b ELSE -b)
    ELSE -((IF a >= 0 THEN a ELSE -a) \div (IF b > 0 THEN b ELSE -b))

Max(a, b) == IF a >= b THEN a ELSE b

(* ------------------------------------------------------------------ *)
(* Saturating helpers                                                  *)
(* ------------------------------------------------------------------ *)

\* ResamplerAdd(a, b, &ret): fail is the -1 return; otherwise ret = a + b,
\* and ub tells that this unguarded sum left the signed range.
ResamplerAdd(a, b) ==
    IF (b > 0) /\ (a > SDL_MAX_SINT64 - b)
    THEN [fail |-> TRUE, ret |-> 0, ub |-> FALSE]
    ELSE [fail |-> FALSE, ret |-> Wrap64(a + b), ub |-> ~IsSint64(a + b)]

\* A multiply that does not test for overflow.
ResamplerMul_Unchecked(a, b) ==
    [fail |-> FALSE, ret |-> Wrap64(a * b), ub |-> ~IsSint64(a * b)]

\* ResamplerMul(a, b, &ret): likewise for a * b.
ResamplerMul(a, b) ==
    IF (b > 0) /\ (a > CDiv(SDL_MAX_SINT64, b))
    THEN [fail |-> TRUE, ret |-> 0, ub |-> FALSE]
    ELSE [fail |-> FALSE, ret |-> Wrap64(a * b), ub |-> ~IsSint64(a * b)]

(* ------------------------------------------------------------------ *)
(* Planning helpers                                                    *)
(* ------------------------------------------------------------------ *)

\* A rate whose shift is done in int, before the widening to Sint64.
SDL_GetResampleRate_IntShift(src_rate, dst_rate) ==
    LET shifted == src_rate * One
    IN  [rate |-> CDiv(ToSint32(shifted), dst_rate),
         ub |-> ~(SDL_MIN_SINT32 <= shifted /\ shifted <= SDL_MAX_SINT32)]

\* SDL_GetResampleRate(src_rate, dst_rate); ub: the shift left the range.
SDL_GetResampleRate(src_rate, dst_rate) ==
    LET shifted == src_rate * One
    IN  [rate |-> CDiv(Wrap64(shifted), dst_rate),
         ub |-> ~IsSint64(shifted)]

SDL_GetResamplerHistoryFrames == RESAMPLER_MAX_PADDING_FRAMES

\* A padding query that treats only positive rates as resampling.
SDL_GetResamplerPaddingFrames_Positive(resample_rate) ==
    IF resample_rate > 0 THEN RESAMPLER_MAX_PADDING_FRAMES ELSE 0

SDL_GetResamplerPaddingFrames(resample_rate) ==
    IF resample_rate # 0 THEN RESAMPLER_MAX_PADDING_FRAMES ELSE 0

\* A planner that returns the index of the last input frame, not that plus 1.
SDL_GetResamplerInputFrames_LastIndex(output_frames, resample_rate, resample_offset) ==
    LET mul == ResamplerMul(output_frames, resample_rate)
        t1 == -resample_rate + resample_offset
        add == ResamplerAdd(mul.ret, Wrap64(t1))
        saturated == mul.fail \/ add.fail
        output_offset == IF saturated THEN SDL_MAX_SINT64 ELSE add.ret
        input_frames == ToSint32(ShiftRight(output_offset, FracBits))
    IN  [frames |-> Max(input_frames, 0),
         output_offset |-> output_offset,
         saturated |-> saturated,
         ub |-> \/ ~IsSint64(t1)
                \/ (~mul.fail /\ (mul.ub \/ (~add.fail /\ add.ub)))]

\* SDL_GetResamplerInputFrames(output_frames, resample_rate, resample_offset).
\* frames is the value returned; saturated tells that output_offset was
\* replaced by SDL_MAX_SINT64; ub that an unguarded step left the range.
SDL_GetResamplerInputFrames(output_frames, resample_rate, resample_offset) ==
    LET mul == ResamplerMul(output_frames, resample_rate)
        t1 == -resample_rate + resample_offset
        t2 == Wrap64(t1) + One
        add == ResamplerAdd(mul.ret, Wrap64(t2))
        saturated == mul.fail \/ add.fail
        output_offset == IF saturated THEN SDL_MAX_SINT64 ELSE add.ret
        input_frames == ToSint32(ShiftRight(output_offset, FracBits))
    IN  [frames |-> Max(input_frames, 0),
         output_offset |-> output_offset,
         saturated |-> saturated,
         ub |-> \/ ~IsSint64(t1) \/ ~IsSint64(t2)
                \/ (~mul.fail /\ (mul.ub \/ (~add.fail /\ add.ub)))]

\* A planner that rounds input_offset / resample_rate down, not up.
SDL_GetResamplerOutputFrames_Floor(input_frames, resample_rate, resample_offset) ==
    LET mul == ResamplerMul(input_frames, One)
        neg == -resample_offset
        add == ResamplerAdd(mul.ret, Wrap64(neg))
        saturated == mul.fail \/ add.fail
        input_offset == IF saturated THEN SDL_MAX_SINT64 ELSE add.ret
        output_frames ==
            IF input_offset > 0 THEN CDiv(input_offset, resample_rate) ELSE 0
        prod == output_frames * resample_rate
        diff == Wrap64(prod) - input_offset
    IN  [frames |-> output_frames,
         offset |-> Wrap64(diff),
         input_offset |-> input_offset,
         saturated |-> saturated,
         ub_helpers |-> \/ ~IsSint64(neg)
                        \/ (~mul.fail /\ (mul.ub \/ (~add.fail /\ add.ub))),
         ub_update |-> ~IsSint64(prod) \/ ~IsSint64(diff)]

\* A planner that adds one to input_offset / resample_rate without first
\* taking one off input_offset.
SDL_GetResamplerOutputFrames_PastEnd(input_frames, resample_rate, resample_offset) ==
    LET mul == ResamplerMul(input_frames, One)
        neg == -resample_offset
        add == ResamplerAdd(mul.ret, Wrap64(neg))
        saturated == mul.fail \/ add.fail
        input_offset == IF saturated THEN SDL_MAX_SINT64 ELSE add.ret
        output_frames ==
            IF input_offset > 0 THEN CDiv(input_offset, resample_rate) + 1 ELSE 0
        prod == output_frames * resample_rate
        diff == Wrap64(prod) - input_offset
    IN  [frames |-> output_frames,
         offset |-> Wrap64(diff),
         input_offset |-> input_offset,
         saturated |-> saturated,
         ub_helpers |-> \/ ~IsSint64(neg)
                        \/ (~mul.fail /\ (mul.ub \/ (~add.fail /\ add.ub))),
         ub_update |-> ~IsSint64(prod) \/ ~IsSint64(diff)]

\* SDL_GetResamplerOutputFrames(input_frames, resample_rate, &offset).
\* frames is the value returned, offset the value stored through the pointer.
\* ub_helpers: an unguarded step inside the add/multiply helpers left the
\* signed range; ub_update: the unguarded offset update did.
SDL_GetResamplerOutputFrames(input_frames, resample_rate, resample_offset) ==
    LET mul == ResamplerMul(input_frames, One)
        neg == -resample_offset
        add == ResamplerAdd(mul.ret, Wrap64(neg))
        saturated == mul.fail \/ add.fail
        input_offset == IF saturated THEN SDL_MAX_SINT64 ELSE add.ret
        output_frames ==
            IF input_offset > 0
            THEN CDiv(input_offset - 1, resample_rate) + 1
            ELSE 0
        prod == output_frames * resample_rate
        diff == Wrap64(prod) - input_offset
    IN  [frames |-> output_frames,
         offset |-> Wrap64(diff),
         input_offset |-> input_offset,
         saturated |-> saturated,
         ub_helpers |-> \/ ~IsSint64(neg)
                        \/ (~mul.fail /\ (mul.ub \/ (~add.fail /\ add.ub))),
         ub_update |-> ~IsSint64(prod) \/ ~IsSint64(diff)]

(* ------------------------------------------------------------------ *)
(* The resample driver                                                 *)
(* ------------------------------------------------------------------ *)

\* A pass that takes the filter row from one bit more of the fraction.
ResampleStep_WideRow(srcpos, inframes) ==
    LET srcindex == ToSint32(ShiftRight(srcpos, FracBits))
        srcfraction == srcpos % One
    IN  [srcindex |-> srcindex,
         filter |-> ShiftRight(srcfraction, RESAMPLER_FILTER_INTERP_BITS - 1)
                        * RESAMPLER_SAMPLES_PER_FRAME,
         interp |-> srcfraction % RESAMPLER_FILTER_INTERP_RANGE,
         asserted |-> srcindex >= -1 /\ srcindex < inframes]

\* One pass of the driver's for loop: what it hands to the kernel for one
\* output frame.  filter is the index of the first of the two filter rows
\* in ResamplerFilter, interp the numerator of the interpolation weight.
ResampleStep(srcpos, inframes) ==
    LET srcindex == ToSint32(ShiftRight(srcpos, FracBits))
        srcfraction == srcpos % One
    IN  [srcindex |-> srcindex,
         filter |-> ShiftRight(srcfraction, RESAMPLER_FILTER_INTERP_BITS)
                        * RESAMPLER_SAMPLES_PER_FRAME,
         interp |-> srcfraction % RESAMPLER_FILTER_INTERP_RANGE,
         asserted |-> srcindex >= -1 /\ srcindex < inframes]

RECURSIVE ResampleLoop(_, _, _, _, _, _)
\* The for loop from iteration i on; ub: srcpos += resample_rate overflowed.
ResampleLoop(i, outframes, inframes, resample_rate, srcpos, acc) ==
    IF i >= outframes
    THEN [srcpos |-> srcpos, visits |-> acc.visits, ub |-> acc.ub]
    ELSE ResampleLoop(i + 1, outframes, inframes, resample_rate,
                      Wrap64(srcpos + resample_rate),
                      [visits |-> Append(acc.visits,
                                         ResampleStep(srcpos, inframes)),
                       ub |-> acc.ub \/ ~IsSint64(srcpos + resample_rate)])

\* A driver that takes inframes off the phase without shifting it.
ResampleWriteBack_NoShift(srcpos, inframes) == srcpos - inframes

\* The value the driver stores back through inout_resample_offset.
ResampleWriteBack(srcpos, inframes) == srcpos - (inframes * One)

\* SDL_ResampleAudio(chans, src, inframes, dst, outframes, rate, &offset):
\* the offset stored on return and, per output frame, what the loop saw.
SDL_ResampleAudio(inframes, outframes, resample_rate, resample_offset) ==
    LET loop == ResampleLoop(0, outframes, inframes, resample_rate,
                             resample_offset, [visits |-> <<>>, ub |-> FALSE])
        back == ResampleWriteBack(loop.srcpos, inframes)
    IN  [offset |-> Wrap64(back),
         visits |-> loop.visits,
         ub |-> loop.ub \/ ~IsSint64(back)]

\* A driver that does not move src back before the loop.
KernelReads_NoShift(srcindex, chans) ==
    { (srcindex * chans) + (i * chans + chan) :
        i \in 0..(RESAMPLER_SAMPLES_PER_FRAME - 1), chan \in 0..(chans - 1) }

\* A frame pointer taken from src as the caller passed it.
FramePointer_NoShift(srcindex, chans) == srcindex * chans

\* frame = &src[srcindex * chans] after src -= (ZERO_CROSSINGS - 1) * chans,
\* as an index relative to the caller's src.
FramePointer(srcindex, chans) ==
    (srcindex * chans) - ((RESAMPLER_ZERO_CROSSINGS - 1) * chans)

\* The sample indices, relative to the caller's src (the first live
\* frame), that the kernel reads for one output frame: the driver moves
\* src back by (ZERO_CROSSINGS - 1) * chans, points frame at
\* src[srcindex * chans], and the kernel reads frame[i * chans + chan].
KernelReads(srcindex, chans) ==
    { (srcindex * chans - (RESAMPLER_ZERO_CROSSINGS - 1) * chans)
          + (i * chans + chan) :
        i \in 0..(RESAMPLER_SAMPLES_PER_FRAME - 1), chan \in 0..(chans - 1) }

(* ------------------------------------------------------------------ *)
(* The filter bank and the kernel dispatch table                       *)
(* ------------------------------------------------------------------ *)

RESAMPLER_FILTER_SIZE ==
    RESAMPLER_SAMPLES_PER_FRAME * (RESAMPLER_SAMPLES_PER_ZERO_CROSSING + 1)

\* A coefficient is held by what it is: n >= 0 stands for the windowed-sinc
\* value v computed for wing sample n (v is 1.0f for n = 0), ZeroCoef for
\* the literal 0.0f.
ZeroCoef == 0 - 1

\* A first loop whose right wing runs through its taps the other way.
FilterWingWrites_ReversedRight ==
    [k \in 1..(2 * RESAMPLER_SAMPLES_PER_ZERO_CROSSING * RESAMPLER_ZERO_CROSSINGS) |->
        LET pass == (k - 1) \div 2
            i == pass \div RESAMPLER_ZERO_CROSSINGS
            j == pass % RESAMPLER_ZERO_CROSSINGS
            n == j * RESAMPLER_SAMPLES_PER_ZERO_CROSSING + i
            lwing == (i * RESAMPLER_SAMPLES_PER_FRAME)
                         + (RESAMPLER_ZERO_CROSSINGS - 1) - j
            rwing == ((RESAMPLER_SAMPLES_PER_ZERO_CROSSING - i)
                          * RESAMPLER_SAMPLES_PER_FRAME)
                         + (RESAMPLER_SAMPLES_PER_FRAME - 1) - j
        IN  IF (k - 1) % 2 = 0 THEN <<lwing, n>> ELSE <<rwing, n>>]

\* The stores GenerateResamplerFilter makes, in program order, as
\* <<index, coefficient>>: first loop (lwing then rwing for every i, j).
FilterWingWrites ==
    [k \in 1..(2 * RESAMPLER_SAMPLES_PER_ZERO_CROSSING * RESAMPLER_ZERO_CROSSINGS) |->
        LET pass == (k - 1) \div 2
            i == pass \div RESAMPLER_ZERO_CROSSINGS
            j == pass % RESAMPLER_ZERO_CROSSINGS
            n == j * RESAMPLER_SAMPLES_PER_ZERO_CROSSING + i
            lwing == (i * RESAMPLER_SAMPLES_PER_FRAME)
                         + (RESAMPLER_ZERO_CROSSINGS - 1) - j
            rwing == (RESAMPLER_FILTER_SIZE - 1) - lwing
        IN  IF (k - 1) % 2 = 0 THEN <<lwing, n>> ELSE <<rwing, n>>]

\* A second loop that zeroes the Z entries at each end of the table.
FilterZeroWrites_Outermost ==
    [k \in 1..(2 * RESAMPLER_ZERO_CROSSINGS) |->
        LET i == (k - 1) \div 2
            rwing == i
            lwing == (RESAMPLER_FILTER_SIZE - 1) - rwing
        IN  IF (k - 1) % 2 = 0 THEN <<lwing, ZeroCoef>> ELSE <<rwing, ZeroCoef>>]

\* Second loop: the stores of 0.0f (lwing then rwing for every i).
FilterZeroWrites ==
    [k \in 1..(2 * RESAMPLER_ZERO_CROSSINGS) |->
        LET i == (k - 1) \div 2
            rwing == i + RESAMPLER_ZERO_CROSSINGS
            lwing == (RESAMPLER_FILTER_SIZE - 1) - rwing
        IN  IF (k - 1) % 2 = 0 THEN <<lwing, ZeroCoef>> ELSE <<rwing, ZeroCoef>>]

FilterWrites == FilterWingWrites \o FilterZeroWrites

RECURSIVE ApplyWrites(_, _, _)
\* The array after the stores writes[k..] are made to bank in order.
ApplyWrites(bank, writes, k) ==
    IF k > Len(writes) THEN bank
    ELSE ApplyWrites([bank EXCEPT ![writes[k][1]] = writes[k][2]], writes, k + 1)

\* static float ResamplerFilter[RESAMPLER_FILTER_SIZE] before setup.
ZeroedFilter == [x \in 0..(RESAMPLER_FILTER_SIZE - 1) |-> ZeroCoef]

\* GenerateResamplerFilter(): the table it leaves.
GenerateResamplerFilter == ApplyWrites(ZeroedFilter, FilterWrites, 1)

KAISER_TABLE_SIZE == RESAMPLER_ZERO_CROSSINGS * 4

\* float kaiser[KAISER_TABLE_SIZE + 4]
KaiserEntries == KAISER_TABLE_SIZE + 4

\* The indices GenerateKaiserTable(beta, kaiser, KAISER_TABLE_SIZE) stores
\* to, in program order.
KaiserStores ==
    [k \in 1..(KAISER_TABLE_SIZE + 1) |-> k] \o
        <<0, KAISER_TABLE_SIZE + 2, KAISER_TABLE_SIZE + 3>>

\* A lookup that starts one entry further into the Kaiser table.
KaiserLookup_Shifted(n) ==
    LET winglen == RESAMPLER_SAMPLES_PER_ZERO_CROSSING * RESAMPLER_ZERO_CROSSINGS
        first == ((n * KAISER_TABLE_SIZE) \div winglen) + 2
    IN  IF n = 0 THEN {} ELSE first..(first + 3)

\* The Kaiser entries CubicInterp reads for wing sample n: data[0..3] from
\* &kaiser[(n * KAISER_TABLE_SIZE) / winglen]; none for n = 0.
KaiserLookup(n) ==
    LET winglen == RESAMPLER_SAMPLES_PER_ZERO_CROSSING * RESAMPLER_ZERO_CROSSINGS
        first == (n * KAISER_TABLE_SIZE) \div winglen
    IN  IF n = 0 THEN {} ELSE first..(first + 3)

\* What one run of GenerateResamplerFilter did: the indices each kind of
\* store went to, in program order, and its use of the Kaiser table.
GenerationTrace ==
    [made |-> TRUE,
     lwing |-> [p \in 1..(Len(FilterWingWrites) \div 2) |->
                   FilterWingWrites[2 * p - 1][1]],
     rwing |-> [p \in 1..(Len(FilterWingWrites) \div 2) |->
                   FilterWingWrites[2 * p][1]],
     zeroed |-> [k \in 1..Len(FilterZeroWrites) |-> FilterZeroWrites[k][1]],
     kaiser_stores |-> KaiserStores,
     kaiser_loads |-> UNION { KaiserLookup(FilterWingWrites[k][2]) :
                                k \in 1..Len(FilterWingWrites) }]

\* static ResampleFrameFunc ResampleFrame[8] before setup.
NullTable == [x \in 0..(ResampleFrameEntries - 1) |-> "NULL"]

\* A setup that fills the table with the generic kernel only.
SetupTable_GenericOnly(sse) ==
    [x \in 0..(ResampleFrameEntries - 1) |->
        IF sse THEN "ResampleFrame_Generic_SSE" ELSE "ResampleFrame_Generic"]

\* The dispatch table SDL_SetupAudioResampler leaves; sse is SDL_HasSSE()
\* in a build with SDL_SSE_INTRINSICS, FALSE otherwise.
SetupTable(sse) ==
    [x \in 0..(ResampleFrameEntries - 1) |->
        IF sse THEN "ResampleFrame_Generic_SSE"
        ELSE IF x = 0 THEN "ResampleFrame_Mono"
        ELSE IF x = 1 THEN "ResampleFrame_Stereo"
        ELSE "ResampleFrame_Generic"]

(* ------------------------------------------------------------------ *)
(* The kernels, on symbolic samples                                    *)
(* ------------------------------------------------------------------ *)

\* A kernel gets src, dst and filter as pointers; indices below are
\* relative to them.  A float is held by what it was computed from:
\*   - a blended coefficient is <<a, b>>, standing for
\*     filter[a] * (1 - interp) + filter[b] * interp;
\*   - a sum of products is the bag of its terms <<s, <<a, b>>>>, each
\*     standing for src[s] times that blended coefficient.
\* Zero stands for 0.0f in a lane that nothing was loaded into.
Zero == 0 - 1

Blend(a, b) == <<a, b>>

Term(s, scale) ==
    IF s = Zero \/ scale = Blend(Zero, Zero) THEN EmptyBag
    ELSE SetToBag({<<s, scale>>})

\* What a kernel did: the stores to dst in program order as
\* <<index, value>>, and the indices it loaded from src and from filter.
KernelResult(stores, src_reads, filter_reads) ==
    [stores |-> stores, src_reads |-> src_reads, filter_reads |-> filter_reads]

RECURSIVE SumTerms(_, _)
\* out = 0.0f; out += terms[k] for k = from .. Len(terms).
SumTerms(terms, from) ==
    IF from > Len(terms) THEN EmptyBag
    ELSE terms[from] (+) SumTerms(terms, from + 1)

\* ResampleFrame_Generic(src, dst, filter, interp, chans)
ResampleFrame_Generic(chans) ==
    LET scales == [i \in 0..(RESAMPLER_SAMPLES_PER_FRAME - 1) |->
                       Blend(i, i + RESAMPLER_SAMPLES_PER_FRAME)]
        out(chan) == SumTerms([k \in 1..RESAMPLER_SAMPLES_PER_FRAME |->
                                  Term((k - 1) * chans + chan, scales[k - 1])], 1)
    IN  KernelResult(
            [k \in 1..Max(chans, 0) |-> <<k - 1, out(k - 1)>>],
            { i * chans + chan : i \in 0..(RESAMPLER_SAMPLES_PER_FRAME - 1),
                                 chan \in 0..(chans - 1) },
            UNION { {i, i + RESAMPLER_SAMPLES_PER_FRAME} :
                      i \in 0..(RESAMPLER_SAMPLES_PER_FRAME - 1) })

\* ResampleFrame_Mono(src, dst, filter, interp, chans): chans is not read.
ResampleFrame_Mono(chans) ==
    LET scale(i) == Blend(i, i + RESAMPLER_SAMPLES_PER_FRAME)
        out == SumTerms([k \in 1..RESAMPLER_SAMPLES_PER_FRAME |->
                            Term(k - 1, scale(k - 1))], 1)
    IN  KernelResult(
            << <<0, out>> >>,
            { i : i \in 0..(RESAMPLER_SAMPLES_PER_FRAME - 1) },
            UNION { {i, i + RESAMPLER_SAMPLES_PER_FRAME} :
                      i \in 0..(RESAMPLER_SAMPLES_PER_FRAME - 1) })

\* A stereo kernel that gives both channels the left input.
ResampleFrame_Stereo_LeftOnly(chans) ==
    LET scale(i) == Blend(i, i + RESAMPLER_SAMPLES_PER_FRAME)
        out0 == SumTerms([k \in 1..RESAMPLER_SAMPLES_PER_FRAME |->
                             Term((k - 1) * 2 + 0, scale(k - 1))], 1)
    IN  KernelResult(
            << <<0, out0>>, <<1, out0>> >>,
            { i * 2 : i \in 0..(RESAMPLER_SAMPLES_PER_FRAME - 1) },
            UNION { {i, i + RESAMPLER_SAMPLES_PER_FRAME} :
                      i \in 0..(RESAMPLER_SAMPLES_PER_FRAME - 1) })

\* ResampleFrame_Stereo(src, dst, filter, interp, chans): chans is not read.
ResampleFrame_Stereo(chans) ==
    LET scale(i) == Blend(i, i + RESAMPLER_SAMPLES_PER_FRAME)
        out0 == SumTerms([k \in 1..RESAMPLER_SAMPLES_PER_FRAME |->
                             Term((k - 1) * 2 + 0, scale(k - 1))], 1)
        out1 == SumTerms([k \in 1..RESAMPLER_SAMPLES_PER_FRAME |->
                             Term((k - 1) * 2 + 1, scale(k - 1))], 1)
    IN  KernelResult(
            << <<0, out0>>, <<1, out1>> >>,
            { i * 2 + c : i \in 0..(RESAMPLER_SAMPLES_PER_FRAME - 1), c \in {0, 1} },
            UNION { {i, i + RESAMPLER_SAMPLES_PER_FRAME} :
                      i \in 0..(RESAMPLER_SAMPLES_PER_FRAME - 1) })

\* SSE registers are four lanes, lane 1 the lowest.  Registers of loaded
\* floats hold indices (or Zero), registers of sums hold bags of terms.
mm_loadu_ps(p) == <<p, p + 1, p + 2, p + 3>>

\* A load of the low half that brings in all four lanes.
mm_loadl_pi_Full(p) == <<p, p + 1, p + 2, p + 3>>

\* _mm_loadl_pi(_mm_setzero_ps(), p)
mm_loadl_pi(p) == <<p, p + 1, Zero, Zero>>

mm_load_ss(p) == <<p, Zero, Zero, Zero>>

\* The indices a load touched.
Loaded(reg) == { reg[l] : l \in 1..4 } \ {Zero}

mm_setzero_ps == <<EmptyBag, EmptyBag, EmptyBag, EmptyBag>>

mm_unpacklo_ps(a, b) == <<a[1], b[1], a[2], b[2]>>

mm_unpackhi_ps(a, b) == <<a[3], b[3], a[4], b[4]>>

mm_movehl_ps(a, b) == <<b[3], b[4], a[3], a[4]>>

mm_movelh_ps(a, b) == <<a[1], a[2], b[1], b[2]>>

\* _mm_shuffle_ps(a, b, _MM_SHUFFLE(z, y, x, w))
mm_shuffle_ps(a, b, z, y, x, w) == <<a[w + 1], a[x + 1], b[y + 1], b[z + 1]>>

mm_add_ps(a, b) == [l \in 1..4 |-> a[l] (+) b[l]]

mm_add_ss(a, b) == <<a[1] (+) b[1], a[2], a[3], a[4]>>

\* _mm_mul_ps of a register of loaded samples and one of blended coefficients.
mm_mul_ps(samples, scales) == [l \in 1..4 |-> Term(samples[l], scales[l])]

\* f = f * interp2 + g * interp1 on registers of loaded coefficients.
LerpFilter(f, g) == [l \in 1..4 |-> Blend(f[l], g[l])]

\* The horizontal sum at the end of the one-channel paths; lane 1 is stored.
HorizontalSum(out) ==
    LET shuf == mm_shuffle_ps(out, out, 2, 3, 0, 1)
        out2 == mm_add_ps(out, shuf)
    IN  mm_add_ss(out2, mm_movehl_ps(shuf, out2))

RECURSIVE SumRegs(_, _)
\* out = regs[from] + regs[from + 1] + ... , starting from _mm_setzero_ps().
SumRegs(regs, from) ==
    IF from > Len(regs) THEN mm_setzero_ps
    ELSE mm_add_ps(regs[from], SumRegs(regs, from + 1))

\* The gather offsets of case n of the switch: v0, v1, v2.
GatherLoads(in, n) ==
    [k \in 1..RESAMPLER_SAMPLES_PER_FRAME |-> mm_load_ss(in + n * (k - 1))]

\* A tail loop that gathers with a stride one short of the channel count.
SSE_Tail_ShortStride(f0, f1, f2, chan, chans) ==
    LET ld == GatherLoads(chan, chans - 1)
        X(a, b) == mm_unpacklo_ps(ld[a + 1], ld[b + 1])
        v0 == mm_movelh_ps(X(0, 1), X(2, 3))
        v1 == mm_movelh_ps(X(4, 5), X(6, 7))
        v2 == X(8, 9)
        out == mm_add_ps(mm_add_ps(mm_mul_ps(v0, f0), mm_mul_ps(v1, f1)),
                         mm_mul_ps(v2, f2))
    IN  [stores |-> << <<chan, HorizontalSum(out)[1]>> >>,
         src_reads |-> UNION { Loaded(ld[k]) : k \in 1..Len(ld) }]

\* One pass of the tail loop for channel chan, chans in {3, 5, 6, 7}.
SSE_Tail(f0, f1, f2, chan, chans) ==
    LET ld == GatherLoads(chan, chans)
        X(a, b) == mm_unpacklo_ps(ld[a + 1], ld[b + 1])
        v0 == mm_movelh_ps(X(0, 1), X(2, 3))
        v1 == mm_movelh_ps(X(4, 5), X(6, 7))
        v2 == X(8, 9)
        out == mm_add_ps(mm_add_ps(mm_mul_ps(v0, f0), mm_mul_ps(v1, f1)),
                         mm_mul_ps(v2, f2))
    IN  [stores |-> << <<chan, HorizontalSum(out)[1]>> >>,
         src_reads |-> UNION { Loaded(ld[k]) : k \in 1..Len(ld) }]

\* One pass of the loop that does four channels at once, from channel chan.
SSE_Group(f0, f1, f2, chan, chans) ==
    LET ld == [k \in 1..RESAMPLER_SAMPLES_PER_FRAME |->
                   mm_loadu_ps(chan + (k - 1) * chans)]
        X(a, b, c) == mm_mul_ps(ld[a + 1], mm_shuffle_ps(b, b, c, c, c, c))
        out == SumRegs(<<X(0, f0, 0), X(1, f0, 1), X(2, f0, 2), X(3, f0, 3),
                         X(4, f1, 0), X(5, f1, 1), X(6, f1, 2), X(7, f1, 3),
                         X(8, f2, 0), X(9, f2, 1)>>, 1)
    IN  [stores |-> [l \in 1..4 |-> <<chan + l - 1, out[l]>>],
         src_reads |-> UNION { Loaded(ld[k]) : k \in 1..Len(ld) }]

RECURSIVE SSE_Loops(_, _, _, _, _, _)
\* The two loops of the general path from channel chan on; acc is what was
\* stored and read so far.  The switch returns for a chans it has no case for.
SSE_Loops(f0, f1, f2, chan, chans, acc) ==
    IF chan + 4 <= chans /\ acc.grouping
    THEN LET g == SSE_Group(f0, f1, f2, chan, chans)
         IN  SSE_Loops(f0, f1, f2, chan + 4, chans,
                       [acc EXCEPT !.stores = @ \o g.stores,
                                   !.src_reads = @ \cup g.src_reads])
    ELSE IF chan < chans /\ chans \in {3, 5, 6, 7}
    THEN LET t == SSE_Tail(f0, f1, f2, chan, chans)
         IN  SSE_Loops(f0, f1, f2, chan + 1, chans,
                       [stores |-> acc.stores \o t.stores,
                        src_reads |-> acc.src_reads \cup t.src_reads,
                        grouping |-> FALSE])
    ELSE acc

\* ResampleFrame_Generic_SSE(src, dst, filter, interp, chans)
ResampleFrame_Generic_SSE(chans) ==
    LET lf0 == mm_loadu_ps(0)
        lf1 == mm_loadu_ps(4)
        lf2 == mm_loadl_pi(8)
        lg0 == mm_loadu_ps(10)
        lg1 == mm_loadu_ps(14)
        lg2 == mm_loadl_pi(18)
        filter_reads == UNION { Loaded(r) : r \in {lf0, lf1, lf2, lg0, lg1, lg2} }
        f0 == LerpFilter(lf0, lg0)
        f1 == LerpFilter(lf1, lg1)
        f2 == LerpFilter(lf2, lg2)
    IN  IF chans = 2
        THEN LET ld == <<mm_loadu_ps(0), mm_loadu_ps(4), mm_loadu_ps(8),
                         mm_loadu_ps(12), mm_loadu_ps(16)>>
                 sum == SumRegs(<<mm_mul_ps(ld[1], mm_unpacklo_ps(f0, f0)),
                                  mm_mul_ps(ld[2], mm_unpackhi_ps(f0, f0)),
                                  mm_mul_ps(ld[3], mm_unpacklo_ps(f1, f1)),
                                  mm_mul_ps(ld[4], mm_unpackhi_ps(f1, f1)),
                                  mm_mul_ps(ld[5], mm_unpacklo_ps(f2, f2))>>, 1)
                 out == mm_add_ps(sum, mm_movehl_ps(sum, sum))
             IN  KernelResult(<< <<0, out[1]>>, <<1, out[2]>> >>,
                              UNION { Loaded(ld[k]) : k \in 1..Len(ld) },
                              filter_reads)
        ELSE IF chans = 1
        THEN LET ld == <<mm_loadu_ps(0), mm_loadu_ps(4), mm_loadl_pi(8)>>
                 out == SumRegs(<<mm_mul_ps(ld[1], f0), mm_mul_ps(ld[2], f1),
                                  mm_mul_ps(ld[3], f2)>>, 1)
             IN  KernelResult(<< <<0, HorizontalSum(out)[1]>> >>,
                              UNION { Loaded(ld[k]) : k \in 1..Len(ld) },
                              filter_reads)
        ELSE LET loops == SSE_Loops(f0, f1, f2, 0, chans,
                                    [stores |-> <<>>, src_reads |-> {},
                                     grouping |-> TRUE])
             IN  KernelResult(loops.stores, loops.src_reads, filter_reads)

\* The functions a table entry can point to.
KernelNames ==
    {"ResampleFrame_Generic", "ResampleFrame_Mono", "ResampleFrame_Stereo",
     "ResampleFrame_Generic_SSE"}

\* Channel counts a caller may pass: those the table has an entry for, and
\* one on either side.
AnyChannels == 0..(ResampleFrameEntries + 1)

\* The body of the function a table entry points to.
RunKernel(kernel, chans) ==
    CASE kernel = "ResampleFrame_Generic" -> ResampleFrame_Generic(chans)
      [] kernel = "ResampleFrame_Mono" -> ResampleFrame_Mono(chans)
      [] kernel = "ResampleFrame_Stereo" -> ResampleFrame_Stereo(chans)
      [] kernel = "ResampleFrame_Generic_SSE" -> ResampleFrame_Generic_SSE(chans)

\* What each kernel does for each channel count, worked out once: a kernel
\* is a function of its arguments only.
KernelResults ==
    [kernel \in KernelNames |-> [chans \in AnyChannels |-> RunKernel(kernel, chans)]]

\* resample_frame(frame, dst, filter, interp, chans) through a table entry.
CallKernel(kernel, chans) == KernelResults[kernel][chans]

(* ------------------------------------------------------------------ *)
(* State: one audio stream driving the resampler                       *)
(* ------------------------------------------------------------------ *)

VARIABLES
    offset,   \* the stream's phase offset, threaded through the driver
    rate,     \* the stream's current resample rate
    call,     \* the last driver call made at this rate: arguments and effect
    prior,    \* the driver call before it at this rate, if there was one
    frames,   \* the frame count a caller is planning for
    inres,    \* what SDL_GetResamplerInputFrames answered, once asked
    outres,   \* what SDL_GetResamplerOutputFrames answered, once asked
    conv,     \* the last conversion SDL_GetResampleRate was asked for
    query,    \* the last answers of the history / padding queries
    has_sse,  \* SDL_HasSSE() in a build with SDL_SSE_INTRINSICS, else FALSE
    setup,    \* static SDL_bool setup of SDL_SetupAudioResampler
    ResampleFrame,    \* static ResampleFrameFunc ResampleFrame[8]
    ResamplerFilter,  \* static float ResamplerFilter[RESAMPLER_FILTER_SIZE]
    writes,   \* how many times the two static tables were written
    setup_calls,      \* how many times SDL_SetupAudioResampler was called
    generation,       \* what the last run of GenerateResamplerFilter did
    frame,    \* the last driver call that went through the dispatch table
    threads,  \* per thread inside the driver: its arguments and its position
    memory,   \* the cells the running driver calls store to
    palettes, \* the SDL_Palette objects created so far
    map,      \* the SDL_BlitMap of the source surface
    op        \* the last call into the palette / blit map functions

streamVars == <<offset, rate, call, prior>>

planVars == <<frames, inres, outres, conv, query>>

threadVars == <<threads, memory>>

staticVars ==
    <<has_sse, setup, ResampleFrame, ResamplerFilter, writes, setup_calls,
      generation>>

vars == <<offset, rate, call, prior, frames, inres, outres, conv, query,
          has_sse, setup, ResampleFrame, ResamplerFilter, writes, setup_calls,
          generation, frame, threads, memory, palettes, map, op>>

pixelVars == <<palettes, map, op>>

NoResult == [made |-> FALSE]

\* Nothing is being planned.
NoPlanning ==
    /\ frames = 0
    /\ inres = NoResult
    /\ outres = NoResult
    /\ conv = NoResult
    /\ query = NoResult

NoCall == [made |-> FALSE]

\* src->internal->palette of the source surface, once created.
SrcPalette == 1

\* dst->internal->palette of the destination surface, once created.
DstPalette == 2

\* The palettes a program creates: one for a source surface, one for a
\* destination surface.
PaletteIds == {SrcPalette, DstPalette}

\* A palette pointer that is NULL.
NullPalette == 0

\* A palette not created yet.
NoPalette == [live |-> FALSE]

\* The SDL_BlitMap fields a reset leaves: dst = NULL (FALSE: no destination
\* surface registered) and both palette versions 0.
ResetMap ==
    [dst |-> FALSE, src_palette_version |-> 0, dst_palette_version |-> 0]

\* No palette exists and the source surface's map is in its reset state.
NoPixels ==
    /\ palettes = [p \in PaletteIds |-> NoPalette]
    /\ map = ResetMap
    /\ op = NoCall

\* No thread is inside the driver.
NoThreads ==
    /\ threads = <<>>
    /\ memory = <<>>

\* The process has just started: nothing set up, both tables zeroed.
NotSetUp ==
    /\ setup = FALSE
    /\ ResampleFrame = NullTable
    /\ ResamplerFilter = ZeroedFilter
    /\ writes = 0
    /\ setup_calls = 0
    /\ generation = NoResult
    /\ frame = NoCall
    /\ NoThreads

\* SDL_SetupAudioResampler has run once, in a build without SSE.
SetUpScalar ==
    /\ has_sse = FALSE
    /\ setup = TRUE
    /\ ResampleFrame = SetupTable(FALSE)
    /\ ResamplerFilter = GenerateResamplerFilter
    /\ writes = 1
    /\ setup_calls = 1
    /\ generation = GenerationTrace
    /\ frame = NoCall
    /\ NoThreads

\* Sample rates (Hz, scaled) a stream converts between.
SampleRates == 1..MaxSampleRate

\* The record of one driver call.
CallRecord(inframes, outframes, before, planned, result) ==
    [made |-> TRUE, inframes |-> inframes, outframes |-> outframes,
     rate |-> rate, before |-> before, planned |-> planned,
     visits |-> result.visits, after |-> result.offset]

\* One whole driver call on the stream with the given frame counts.
DoResample(inframes, outframes, planned) ==
    LET result == SDL_ResampleAudio(inframes, outframes, rate, offset)
    IN  /\ ~result.ub
        /\ offset' = result.offset
        /\ call' = CallRecord(inframes, outframes, offset, planned, result)
        /\ prior' = call
        /\ UNCHANGED <<rate, planVars, staticVars, frame, threadVars, pixelVars>>

\* A stream opens at a fresh sample origin, converting src_rate to dst_rate.
Init ==
    /\ offset = 0
    /\ \E src_rate \in SampleRates, dst_rate \in SampleRates :
           rate = SDL_GetResampleRate(src_rate, dst_rate).rate
    /\ call = NoCall
    /\ prior = NoCall
    /\ NoPixels
    /\ NoPlanning
    /\ SetUpScalar

\* The stream's formats change mid-stream: a new rate, the offset is kept.
SetRate ==
    \E src_rate \in SampleRates, dst_rate \in SampleRates :
        /\ rate' = SDL_GetResampleRate(src_rate, dst_rate).rate
        /\ rate' # rate
        /\ call' = NoCall
        /\ prior' = NoCall
        /\ UNCHANGED <<offset, planVars, staticVars, frame, threadVars, pixelVars>>

\* The stream owner asks for outframes frames and supplies exactly the
\* input frames the planner asks for.
ResamplePlanned ==
    \E outframes \in 0..MaxOutFrames :
        LET plan == SDL_GetResamplerInputFrames(outframes, rate, offset)
        IN  /\ ~plan.saturated /\ ~plan.ub
            /\ DoResample(plan.frames, outframes, TRUE)

Next == SetRate \/ ResamplePlanned

Spec == Init /\ [][Next]_vars

(* ------------------------------------------------------------------ *)
(* Single driver calls on arbitrary arguments                          *)
(* ------------------------------------------------------------------ *)

\* Offsets a single call is tried from.
DriverOffsets == (-(2 * One))..(2 * One)

InitDriver ==
    /\ offset \in DriverOffsets
    /\ \E src_rate \in SampleRates, dst_rate \in SampleRates :
           rate = SDL_GetResampleRate(src_rate, dst_rate).rate
    /\ call = NoCall
    /\ prior = NoCall
    /\ NoPixels
    /\ NoPlanning
    /\ SetUpScalar

\* One call with any frame counts: the planned inframes or a small one.
ResampleAny ==
    /\ ~call.made
    /\ ~outres.made
    /\ \E outframes \in 0..MaxOutFrames :
           LET plan == SDL_GetResamplerInputFrames(outframes, rate, offset)
           IN  \E inframes \in (0..MaxInFrames) \cup {plan.frames} :
                   DoResample(inframes, outframes,
                              /\ ~plan.saturated /\ ~plan.ub
                              /\ plan.frames = inframes)

\* What a call of SDL_GetResamplerOutputFrames(input_frames, rate, &offset)
\* did: its arguments, its answer and the offset it stored.
OutputRecord(input_frames) ==
    LET r == SDL_GetResamplerOutputFrames(input_frames, rate, offset)
    IN  [made |-> TRUE, input_frames |-> input_frames, rate |-> rate,
         before |-> offset, frames |-> r.frames, after |-> r.offset,
         input_offset |-> r.input_offset, saturated |-> r.saturated,
         ub_helpers |-> r.ub_helpers, ub_update |-> r.ub_update]

\* The caller has some input frames and asks, on a copy of the offset, how
\* many output frames they give.
PlanAvailable ==
    /\ ~call.made
    /\ ~outres.made
    /\ \E input_frames \in 0..MaxInFrames :
           LET plan == OutputRecord(input_frames)
           IN  /\ ~plan.saturated /\ ~plan.ub_helpers /\ ~plan.ub_update
               /\ outres' = plan
    /\ UNCHANGED <<streamVars, frames, inres, conv, query, staticVars, frame, threadVars, pixelVars>>

\* The caller asks how many input frames the planned output frames need.
PlanBack ==
    /\ outres.made
    /\ ~inres.made
    /\ ~call.made
    /\ LET r == SDL_GetResamplerInputFrames(outres.frames, rate, offset)
       IN  inres' = [made |-> TRUE, output_frames |-> outres.frames,
                     offset |-> offset, frames |-> r.frames,
                     output_offset |-> r.output_offset,
                     saturated |-> r.saturated, ub |-> r.ub]
    /\ UNCHANGED <<streamVars, frames, outres, conv, query, staticVars, frame, threadVars, pixelVars>>

\* The caller resamples the input frames it has into the planned number of
\* output frames.
ResampleAvailable ==
    /\ outres.made
    /\ ~call.made
    /\ LET result == SDL_ResampleAudio(outres.input_frames, outres.frames,
                                       rate, offset)
           back == SDL_GetResamplerInputFrames(outres.frames, rate, offset)
       IN  /\ ~result.ub
           /\ offset' = result.offset
           /\ call' = CallRecord(outres.input_frames, outres.frames, offset,
                                 /\ ~back.saturated /\ ~back.ub
                                 /\ back.frames = outres.input_frames,
                                 result)
           /\ prior' = call
    /\ UNCHANGED <<rate, planVars, staticVars, frame, threadVars, pixelVars>>

NextDriver == ResampleAny \/ PlanAvailable \/ PlanBack \/ ResampleAvailable

SpecDriver == InitDriver /\ [][NextDriver]_vars

(* ------------------------------------------------------------------ *)
(* The planning helpers on their own                                   *)
(* ------------------------------------------------------------------ *)

\* Rates the helpers are asked about: up to just over 2x downsampling.
PlanRates == 1..(2 * One + 1)

\* Offsets the helpers are asked about: every |offset| < rate and beyond.
PlanOffsets == (-(2 * One + 1))..(2 * One + 1)

\* Frame counts: small ones, and those around which the multiply by the
\* rate or by 1 << 32 leaves the signed range.
PlanFrames ==
    (0..MaxPlanFrames)
        \cup {SDL_MAX_SINT32 - 1, SDL_MAX_SINT32, SDL_MAX_SINT32 + 1,
              SDL_MAX_SINT64 \div 2, SDL_MAX_SINT64}

InitPlan ==
    /\ offset \in PlanOffsets
    /\ rate \in PlanRates
    /\ frames \in PlanFrames
    /\ call = NoCall
    /\ prior = NoCall
    /\ NoPixels
    /\ inres = NoResult
    /\ outres = NoResult
    /\ conv = NoResult
    /\ query = NoResult
    /\ has_sse = FALSE
    /\ NotSetUp

\* input_frames_for(frames, rate, offset).
PlanInput ==
    /\ ~inres.made /\ ~outres.made
    /\ LET r == SDL_GetResamplerInputFrames(frames, rate, offset)
       IN  inres' = [made |-> TRUE, output_frames |-> frames,
                     offset |-> offset, frames |-> r.frames,
                     output_offset |-> r.output_offset,
                     saturated |-> r.saturated, ub |-> r.ub]
    /\ UNCHANGED <<streamVars, frames, outres, conv, query, staticVars, frame, threadVars, pixelVars>>

\* output_frames_for(frames, rate, &offset).
PlanOutput ==
    /\ ~inres.made /\ ~outres.made
    /\ outres' = OutputRecord(frames)
    /\ offset' = outres'.after
    /\ UNCHANGED <<rate, call, prior, frames, inres, conv, query, staticVars, frame, threadVars, pixelVars>>

\* output_frames_for(input_frames_for(frames, rate, offset), rate, &offset).
PlanRoundTrip ==
    /\ inres.made /\ ~outres.made
    /\ outres' = OutputRecord(inres.frames)
    /\ offset' = outres'.after
    /\ UNCHANGED <<rate, call, prior, frames, inres, conv, query, staticVars, frame, threadVars, pixelVars>>

NextPlan == PlanInput \/ PlanOutput \/ PlanRoundTrip

SpecPlan == InitPlan /\ [][NextPlan]_vars

(* ------------------------------------------------------------------ *)
(* Rates from sample rates                                             *)
(* ------------------------------------------------------------------ *)

\* Every positive int.
PositiveInts == 1..SDL_MAX_SINT32

InitRate ==
    /\ offset = 0
    /\ rate = One
    /\ call = NoCall
    /\ prior = NoCall
    /\ NoPixels
    /\ NoPlanning
    /\ has_sse = FALSE
    /\ NotSetUp

\* rate(src_rate, dst_rate) for a stream being opened.
ComputeRate ==
    /\ ~conv.made
    /\ \E src_rate \in PositiveInts, dst_rate \in PositiveInts :
           LET r == SDL_GetResampleRate(src_rate, dst_rate)
           IN  /\ conv' = [made |-> TRUE, src_rate |-> src_rate,
                           dst_rate |-> dst_rate, rate |-> r.rate,
                           ub |-> r.ub]
               /\ rate' = r.rate
    /\ UNCHANGED <<offset, call, prior, frames, inres, outres, query, staticVars, frame, threadVars, pixelVars>>

\* Rates the padding query is asked about: none (0), the stream's, and the
\* ends of the Sint64 range on both sides of 0.
QueryRates == {0, rate, -rate, 1, -1, SDL_MIN_SINT64, SDL_MAX_SINT64}

\* history_frames() and padding_frames(resample_rate), asked at any time,
\* before or after other calls.
QueryFrames ==
    /\ \E resample_rate \in QueryRates :
           query' = [made |-> TRUE, resample_rate |-> resample_rate,
                     history |-> SDL_GetResamplerHistoryFrames,
                     padding |-> SDL_GetResamplerPaddingFrames(resample_rate)]
    /\ UNCHANGED <<streamVars, frames, inres, outres, conv, staticVars, frame, threadVars, pixelVars>>

NextRate == ComputeRate \/ QueryFrames

SpecRate == InitRate /\ [][NextRate]_vars

(* ------------------------------------------------------------------ *)
(* The rate at the width of the code                                   *)
(* ------------------------------------------------------------------ *)

\* A Sint64 is held as its eight bytes, most significant first, since the
\* values do not fit the integers of the checker.
Byte == 2 ^ 8

Sint64Bytes == 64 \div 8

\* The k bytes of n >= 0, most significant first.
ToBytes(n, k) == [i \in 1..k |-> (n \div (Byte ^ (k - i))) % Byte]

RECURSIVE DivBytes(_, _, _, _, _)
\* Schoolbook division of bytes[k..] by d, truncating; rem is the remainder
\* carried in, acc the quotient bytes so far.
DivBytes(bytes, d, k, rem, acc) ==
    IF k > Len(bytes) THEN acc
    ELSE LET cur == rem * Byte + bytes[k]
         IN  DivBytes(bytes, d, k + 1, cur % d, Append(acc, cur \div d))

\* A rate whose shift leaves only RateFracBits - 8 fraction bits.
SDL_GetResampleRate64_ShortShift(src_rate, dst_rate) ==
    LET shifted == <<0>> \o ToBytes(src_rate, Sint64Bytes - (RateFracBits \div 8))
                        \o ToBytes(0, (RateFracBits \div 8) - 1)
    IN  DivBytes(shifted, dst_rate, 1, 0, <<>>)

\* SDL_GetResampleRate(src_rate, dst_rate) for 0 < src_rate < 2^31 and
\* 0 < dst_rate < 2^23: ((Sint64)src_rate << 32) / (Sint64)dst_rate.
SDL_GetResampleRate64(src_rate, dst_rate) ==
    LET shifted == ToBytes(src_rate, Sint64Bytes - (RateFracBits \div 8))
                        \o ToBytes(0, RateFracBits \div 8)
    IN  DivBytes(shifted, dst_rate, 1, 0, <<>>)

\* Sample rates audio devices and files commonly use.
AudioRates ==
    {8000, 11025, 16000, 22050, 32000, 44100, 48000, 88200, 96000, 192000}

InitWide ==
    /\ offset = 0
    /\ rate = One
    /\ call = NoCall
    /\ prior = NoCall
    /\ NoPixels
    /\ NoPlanning
    /\ has_sse = FALSE
    /\ NotSetUp

\* rate(src_rate, dst_rate) for a pair of audio rates.
ComputeRate64 ==
    /\ \E src_rate \in AudioRates, dst_rate \in AudioRates :
           conv' = [made |-> TRUE, src_rate |-> src_rate, dst_rate |-> dst_rate,
                    bytes |-> SDL_GetResampleRate64(src_rate, dst_rate)]
    /\ UNCHANGED <<streamVars, frames, inres, outres, query, staticVars, frame, threadVars, pixelVars>>

NextWide == ComputeRate64

SpecWide == InitWide /\ [][NextWide]_vars

(* ------------------------------------------------------------------ *)
(* Setup, and driver calls with their kernel                           *)
(* ------------------------------------------------------------------ *)

\* A setup that does not test its flag.
SDL_SetupAudioResampler_NoFlag ==
    /\ setup_calls < MaxSetupCalls
    /\ setup_calls' = setup_calls + 1
    /\ ResamplerFilter' = GenerateResamplerFilter
    /\ generation' = GenerationTrace
    /\ ResampleFrame' = SetupTable(has_sse)
    /\ writes' = writes + 1
    /\ setup' = TRUE
    /\ UNCHANGED <<streamVars, planVars, has_sse, frame, threadVars, pixelVars>>

\* SDL_SetupAudioResampler()
SDL_SetupAudioResampler ==
    /\ setup_calls < MaxSetupCalls
    /\ setup_calls' = setup_calls + 1
    /\ IF setup
       THEN UNCHANGED <<setup, ResampleFrame, ResamplerFilter, writes, generation, pixelVars>>
       ELSE /\ ResamplerFilter' = GenerateResamplerFilter
            /\ generation' = GenerationTrace
            /\ ResampleFrame' = SetupTable(has_sse)
            /\ writes' = writes + 1
            /\ setup' = TRUE
    /\ UNCHANGED <<streamVars, planVars, has_sse, frame, threadVars, pixelVars>>

\* What ResampleFrame[chans - 1] can turn out to be: the entry when the
\* index is inside the table, anything when it is not (the read is
\* undefined).
DispatchOutcomes(chans) ==
    IF chans - 1 \in DOMAIN ResampleFrame
    THEN {ResampleFrame[chans - 1]}
    ELSE {"NULL"} \cup KernelNames

\* What the kernel behind a table entry does; nothing is known of a call
\* through a null pointer.
KernelOutcome(kernel, chans) ==
    IF kernel = "NULL" THEN KernelResult(<<>>, {}, {})
    ELSE CallKernel(kernel, chans)

\* The record of a driver call that dispatched on chans: per output frame
\* what the loop handed to the kernel, and what that kernel does with its
\* pointers.  oob: the table was indexed outside its 8 entries.
FrameRecord(chans, kernel, inframes) ==
    LET driver == SDL_ResampleAudio(inframes, frames, rate, offset)
    IN  [made |-> TRUE, chans |-> chans, kernel |-> kernel,
         before |-> offset, inframes |-> inframes,
         visits |-> driver.visits, after |-> driver.offset,
         oob |-> ~(chans - 1 \in DOMAIN ResampleFrame),
         ub |-> driver.ub \/ ~(chans - 1 \in DOMAIN ResampleFrame),
         out |-> KernelOutcome(kernel, chans)]

\* One driver call after setup, on the planned number of input frames, for
\* a channel count out of counts.
ResampleChannels(counts) ==
    /\ setup
    /\ ~frame.made
    /\ \E chans \in counts :
       \E kernel \in DispatchOutcomes(chans) :
           LET plan == SDL_GetResamplerInputFrames(frames, rate, offset)
           IN  /\ ~plan.ub
               /\ frame' = FrameRecord(chans, kernel, plan.frames)
               /\ offset' = frame'.after
    /\ UNCHANGED <<rate, call, prior, planVars, staticVars, threadVars, pixelVars>>

InitSetup ==
    /\ offset \in DriverOffsets
    /\ rate = One
    /\ call = NoCall
    /\ prior = NoCall
    /\ NoPixels
    /\ frames \in 1..MaxKernelFrames
    /\ inres = NoResult
    /\ outres = NoResult
    /\ conv = NoResult
    /\ query = NoResult
    /\ has_sse \in BOOLEAN
    /\ NotSetUp

NextSetup ==
    \/ SDL_SetupAudioResampler
    \/ ResampleChannels(AnyChannels)
    \/ PlanInput
    \/ PlanOutput

SpecSetup == InitSetup /\ [][NextSetup]_vars

\* Every phase a Sint64 can hold.
AllPhases == SDL_MIN_SINT64..SDL_MAX_SINT64

\* Setup has run once; the build and the machine may or may not have SSE.
InitKernel ==
    /\ offset \in AllPhases
    /\ rate = One
    /\ call = NoCall
    /\ prior = NoCall
    /\ NoPixels
    /\ frames \in 1..MaxKernelFrames
    /\ inres = NoResult
    /\ outres = NoResult
    /\ conv = NoResult
    /\ query = NoResult
    /\ has_sse \in BOOLEAN
    /\ setup = TRUE
    /\ ResampleFrame = SetupTable(has_sse)
    /\ ResamplerFilter = GenerateResamplerFilter
    /\ writes = 1
    /\ setup_calls = 1
    /\ generation = GenerationTrace
    /\ frame = NoCall
    /\ NoThreads

\* The channel counts the dispatch table has an entry for.
TableChannels == 1..ResampleFrameEntries

NextKernel == ResampleChannels(TableChannels)

SpecKernel == InitKernel /\ [][NextKernel]_vars

(* ------------------------------------------------------------------ *)
(* Threads inside the driver at the same time                          *)
(* ------------------------------------------------------------------ *)

Threads == 1..MaxThreads

\* What each caller passes: thread t has its own offset cell and its own
\* dst buffer (src is only read).
OffsetCell(t) == t

DstBuffer(t) == t

\* A driver that keeps srcpos in one static variable.
SrcposSlot_Static(t) == 0

\* srcpos is an automatic variable: every running call has its own.
SrcposSlot(t) == t

\* Offsets the streams of the threads are at.
ThreadOffsets == {0, One \div 2}

\* The arguments of thread t's call and its position in it; rate is the
\* rate all the streams convert at, offsets the contents of the cells.
ThreadAtCall(t, offsets) ==
    [chans |-> t,
     inframes |-> SDL_GetResamplerInputFrames(MaxOutFrames, rate,
                                              offsets[OffsetCell(t)]).frames,
     outframes |-> MaxOutFrames,
     rate |-> rate,
     before |-> offsets[OffsetCell(t)],
     pc |-> "call", i |-> 0, resample_frame |-> "NULL", dstpos |-> 0,
     visits |-> <<>>]

InitThreads ==
    /\ offset = 0
    /\ \E src_rate \in SampleRates, dst_rate \in SampleRates :
           rate = SDL_GetResampleRate(src_rate, dst_rate).rate
    /\ call = NoCall
    /\ prior = NoCall
    /\ NoPixels
    /\ NoPlanning
    /\ has_sse \in BOOLEAN
    /\ setup = TRUE
    /\ ResampleFrame = SetupTable(has_sse)
    /\ ResamplerFilter = GenerateResamplerFilter
    /\ writes = 1
    /\ setup_calls = 1
    /\ generation = GenerationTrace
    /\ frame = NoCall
    /\ \E offsets \in [Threads -> ThreadOffsets] :
           /\ threads = [t \in Threads |-> ThreadAtCall(t, offsets)]
           /\ memory = [offset |-> offsets,
                        offset_writers |-> [c \in Threads |-> {}],
                        dst_writers |-> [b \in Threads |-> {}],
                        srcpos |-> [s \in 0..MaxThreads |-> 0]]

\* Lines 448-453: thread t enters the driver, loads its offset and the
\* table entry for its channel count.
ThreadEnter(t) ==
    /\ threads[t].pc = "call"
    /\ threads' = [threads EXCEPT
           ![t].pc = "loop",
           ![t].resample_frame = ResampleFrame[threads[t].chans - 1]]
    /\ memory' = [memory EXCEPT
           !.srcpos[SrcposSlot(t)] = memory.offset[OffsetCell(t)]]
    /\ UNCHANGED <<streamVars, planVars, staticVars, frame, pixelVars>>

\* Lines 455-468: one pass of thread t's loop, kernel call included.
ThreadFrame(t) ==
    LET a == threads[t]
        srcpos == memory.srcpos[SrcposSlot(t)]
        step == ResampleStep(srcpos, a.inframes)
        out == CallKernel(a.resample_frame, a.chans)
    IN  /\ a.pc = "loop"
        /\ a.i < a.outframes
        /\ IsSint64(srcpos + a.rate)
        /\ \A f \in out.filter_reads : step.filter + f \in DOMAIN ResamplerFilter
        /\ threads' = [threads EXCEPT
               ![t].i = a.i + 1,
               ![t].dstpos = a.dstpos + a.chans,
               ![t].visits = Append(a.visits, step)]
        /\ memory' = [memory EXCEPT
               !.srcpos[SrcposSlot(t)] = srcpos + a.rate,
               !.dst_writers[DstBuffer(t)] =
                   @ \cup { <<a.dstpos + out.stores[j][1], t>> :
                              j \in 1..Len(out.stores) }]
        /\ UNCHANGED <<streamVars, planVars, staticVars, frame, pixelVars>>

\* Line 471: thread t stores the offset back and returns.
ThreadReturn(t) ==
    LET a == threads[t]
        back == ResampleWriteBack(memory.srcpos[SrcposSlot(t)], a.inframes)
    IN  /\ a.pc = "loop"
        /\ a.i >= a.outframes
        /\ IsSint64(back)
        /\ threads' = [threads EXCEPT ![t].pc = "done"]
        /\ memory' = [memory EXCEPT
               !.offset[OffsetCell(t)] = back,
               !.offset_writers[OffsetCell(t)] = @ \cup {t}]
        /\ UNCHANGED <<streamVars, planVars, staticVars, frame, pixelVars>>

NextThreads ==
    \E t \in Threads : ThreadEnter(t) \/ ThreadFrame(t) \/ ThreadReturn(t)

SpecThreads == InitThreads /\ [][NextThreads]_vars

(* ------------------------------------------------------------------ *)
(* A stream whose offset both the planner and the driver store         *)
(* ------------------------------------------------------------------ *)

\* The stream owner asks how many output frames input_frames give, handing
\* the planner the stream's own offset: the planner stores its offset there.
PlanStored ==
    \E input_frames \in 0..MaxInFrames :
        LET plan == OutputRecord(input_frames)
        IN  /\ ~plan.saturated /\ ~plan.ub_helpers /\ ~plan.ub_update
            /\ outres' = plan
            /\ offset' = plan.after
            /\ call' = NoCall
            /\ prior' = NoCall
            /\ UNCHANGED <<rate, frames, inres, conv, query, staticVars, frame, threadVars, pixelVars>>

\* The stream owner asks for outframes frames and supplies exactly the
\* input frames the planner asks for; only this last call is remembered.
ResampleStored ==
    \E outframes \in 0..MaxOutFrames :
        LET plan == SDL_GetResamplerInputFrames(outframes, rate, offset)
            result == SDL_ResampleAudio(plan.frames, outframes, rate, offset)
        IN  /\ ~plan.saturated /\ ~plan.ub
            /\ ~result.ub
            /\ offset' = result.offset
            /\ call' = CallRecord(plan.frames, outframes, offset, TRUE, result)
            /\ prior' = NoCall
            /\ outres' = NoResult
            /\ UNCHANGED <<rate, frames, inres, conv, query, staticVars, frame, threadVars, pixelVars>>

NextOffset == SetRate \/ ResampleStored \/ PlanStored

SpecOffset == Init /\ [][NextOffset]_vars

(* ------------------------------------------------------------------ *)
(* Two threads in SDL_SetupAudioResampler at once, store by store      *)
(* ------------------------------------------------------------------ *)

\* The two threads that make the first calls of SDL_SetupAudioResampler.
SetupThreads == {1, 2}

\* Where a thread is: pc the statement it is at, i the loop index there,
\* own whether its setup call made the stores itself, last what its driver
\* call did last: <<"dispatch", chans, entry read>> or
\* <<"filter", index, value read>>.
ThreadAt(pc, i, own, last) == [pc |-> pc, i |-> i, own |-> own, last |-> last]

\* No store has been made to any element of the two static arrays.
NoStores ==
    [ResampleFrame |-> [x \in DOMAIN NullTable |-> {}],
     ResamplerFilter |-> [x \in DOMAIN ZeroedFilter |-> {}]]

InitRace ==
    /\ offset = 0
    /\ rate = One
    /\ call = NoCall
    /\ prior = NoCall
    /\ NoPixels
    /\ NoPlanning
    /\ has_sse \in BOOLEAN
    /\ setup = FALSE
    /\ ResampleFrame = NullTable
    /\ ResamplerFilter = ZeroedFilter
    /\ writes = 0
    /\ setup_calls = 0
    /\ generation = NoResult
    /\ frame = NoCall
    /\ threads = [t \in SetupThreads |-> ThreadAt("if (setup)", 0, FALSE, <<>>)]
    /\ memory = NoStores

\* Thread t moves on to pc, i.
Step(t, pc, i, own) ==
    /\ threads' = [threads EXCEPT ![t] = ThreadAt(pc, i, own, <<>>)]
    /\ UNCHANGED <<streamVars, planVars, has_sse, writes, setup_calls,
                   generation, frame, pixelVars>>

\* memory after thread t stored value to array[x]: per element, who stored
\* what so far.
Stored(t, array, x, value) ==
    [memory EXCEPT ![array][x] = @ \cup {<<t, value>>}]

\* The static arrays are plain objects and no setup call synchronises with
\* another, so a load of an element another thread stores to races with that
\* store.  What such a load by thread t can give: the value in place, a
\* value another thread stored, and, when t made no store of its own (it
\* returned on the flag another thread set), the initial value.
Loads(t, array, x, initial, current) ==
    {current}
        \cup { s[2] : s \in { s \in memory[array][x] : s[1] # t } }
        \cup (IF threads[t].own THEN {} ELSE {initial})

\* if (setup) { return; }  The flag is a plain static too: a thread can
\* still read SDL_FALSE after another one stored SDL_TRUE.
SetupTestFlag(t) ==
    /\ threads[t].pc = "if (setup)"
    /\ \E seen \in {setup, FALSE} :
           IF seen THEN Step(t, "returned", 0, FALSE)
           ELSE Step(t, "ResamplerFilter[] =", 1, TRUE)
    /\ UNCHANGED <<setup, ResampleFrame, ResamplerFilter, memory, pixelVars>>

\* GenerateResamplerFilter(): its next store to ResamplerFilter.
SetupStoreFilter(t) ==
    /\ threads[t].pc = "ResamplerFilter[] ="
    /\ LET k == threads[t].i
           x == FilterWrites[k][1]
           v == FilterWrites[k][2]
       IN  /\ ResamplerFilter' = [ResamplerFilter EXCEPT ![x] = v]
           /\ memory' = Stored(t, "ResamplerFilter", x, v)
           /\ IF k < Len(FilterWrites)
              THEN Step(t, "ResamplerFilter[] =", k + 1, TRUE)
              ELSE Step(t, "ResampleFrame[i] = Generic", 0, TRUE)
    /\ UNCHANGED <<setup, ResampleFrame, pixelVars>>

\* for (i = 0; i < 8; ++i) ResampleFrame[i] = ResampleFrame_Generic;
SetupStoreGeneric(t) ==
    /\ threads[t].pc = "ResampleFrame[i] = Generic"
    /\ LET i == threads[t].i
       IN  /\ ResampleFrame' = [ResampleFrame EXCEPT ![i] = "ResampleFrame_Generic"]
           /\ memory' = Stored(t, "ResampleFrame", i, "ResampleFrame_Generic")
           /\ IF i + 1 < ResampleFrameEntries
              THEN Step(t, "ResampleFrame[i] = Generic", i + 1, TRUE)
              ELSE Step(t, "ResampleFrame[0] = Mono", 0, TRUE)
    /\ UNCHANGED <<setup, ResamplerFilter, pixelVars>>

\* ResampleFrame[0] = ResampleFrame_Mono;
SetupStoreMono(t) ==
    /\ threads[t].pc = "ResampleFrame[0] = Mono"
    /\ ResampleFrame' = [ResampleFrame EXCEPT ![0] = "ResampleFrame_Mono"]
    /\ memory' = Stored(t, "ResampleFrame", 0, "ResampleFrame_Mono")
    /\ Step(t, "ResampleFrame[1] = Stereo", 0, TRUE)
    /\ UNCHANGED <<setup, ResamplerFilter, pixelVars>>

\* ResampleFrame[1] = ResampleFrame_Stereo;
SetupStoreStereo(t) ==
    /\ threads[t].pc = "ResampleFrame[1] = Stereo"
    /\ ResampleFrame' = [ResampleFrame EXCEPT ![1] = "ResampleFrame_Stereo"]
    /\ memory' = Stored(t, "ResampleFrame", 1, "ResampleFrame_Stereo")
    /\ Step(t, "if (SDL_HasSSE())", 0, TRUE)
    /\ UNCHANGED <<setup, ResamplerFilter, pixelVars>>

\* if (SDL_HasSSE()), in a build with SDL_SSE_INTRINSICS.
SetupTestSSE(t) ==
    /\ threads[t].pc = "if (SDL_HasSSE())"
    /\ IF has_sse THEN Step(t, "ResampleFrame[i] = SSE", 0, TRUE)
       ELSE Step(t, "setup = SDL_TRUE", 0, TRUE)
    /\ UNCHANGED <<setup, ResampleFrame, ResamplerFilter, memory, pixelVars>>

\* for (i = 0; i < 8; ++i) ResampleFrame[i] = ResampleFrame_Generic_SSE;
SetupStoreSSE(t) ==
    /\ threads[t].pc = "ResampleFrame[i] = SSE"
    /\ LET i == threads[t].i
       IN  /\ ResampleFrame' =
                  [ResampleFrame EXCEPT ![i] = "ResampleFrame_Generic_SSE"]
           /\ memory' = Stored(t, "ResampleFrame", i, "ResampleFrame_Generic_SSE")
           /\ IF i + 1 < ResampleFrameEntries
              THEN Step(t, "ResampleFrame[i] = SSE", i + 1, TRUE)
              ELSE Step(t, "setup = SDL_TRUE", 0, TRUE)
    /\ UNCHANGED <<setup, ResamplerFilter, pixelVars>>

\* setup = SDL_TRUE; and the return.
SetupStoreFlag(t) ==
    /\ threads[t].pc = "setup = SDL_TRUE"
    /\ setup' = TRUE
    /\ Step(t, "returned", 0, TRUE)
    /\ UNCHANGED <<ResampleFrame, ResamplerFilter, memory, pixelVars>>

\* A driver call of a thread whose own setup call has returned:
\* resample_frame = ResampleFrame[chans - 1].
DriverDispatch(t) ==
    /\ threads[t].pc = "returned"
    /\ \E chans \in 1..ResampleFrameEntries :
       \E entry \in Loads(t, "ResampleFrame", chans - 1,
                          NullTable[chans - 1], ResampleFrame[chans - 1]) :
           threads' = [threads EXCEPT ![t] =
               ThreadAt("resample_frame()", 0, threads[t].own,
                        <<"dispatch", chans, entry>>)]
    /\ UNCHANGED <<streamVars, planVars, staticVars, frame, memory, pixelVars>>

\* Some time later the kernel of that call loads a coefficient of the bank.
KernelLoad(t) ==
    /\ threads[t].pc = "resample_frame()"
    /\ \E x \in DOMAIN ResamplerFilter :
       \E value \in Loads(t, "ResamplerFilter", x,
                          ZeroedFilter[x], ResamplerFilter[x]) :
           threads' = [threads EXCEPT ![t] =
               ThreadAt("filter[]", 0, threads[t].own,
                        <<"filter", x, value>>)]
    /\ UNCHANGED <<streamVars, planVars, staticVars, frame, memory, pixelVars>>

NextRace ==
    \E t \in SetupThreads :
        \/ SetupTestFlag(t)
        \/ SetupStoreFilter(t)
        \/ SetupStoreGeneric(t)
        \/ SetupStoreMono(t)
        \/ SetupStoreStereo(t)
        \/ SetupTestSSE(t)
        \/ SetupStoreSSE(t)
        \/ SetupStoreFlag(t)
        \/ DriverDispatch(t)
        \/ KernelLoad(t)

SpecRace == InitRace /\ [][NextRace]_vars

(* ------------------------------------------------------------------ *)
(* Palettes and the blit map of a surface (SDL_pixels.c)               *)
(* ------------------------------------------------------------------ *)

\* Width of the scaled Uint32 version field of SDL_Palette.
VersionBits == 2

\* Color counts callers pass: none, a whole 8-bit palette.
PaletteSizes == {0, 256}

\* (Uint32)x.
ToUint32(x) == x % (2 ^ VersionBits)

\* A SetPaletteColors that lets the version wrap to 0.
SDL_SetPaletteColors_Wraps(palette, firstcolor, ncolors) ==
    IF palette = NullPalette THEN [version |-> 0, status |-> 0 - 1, copied |-> 0]
    ELSE LET clamp == ncolors > palettes[palette].ncolors - firstcolor
             n == IF clamp THEN palettes[palette].ncolors - firstcolor ELSE ncolors
         IN  [version |-> ToUint32(palettes[palette].version + 1),
              status |-> IF clamp THEN 0 - 1 ELSE 0,
              copied |-> n]

\* SDL_SetPaletteColors(palette, colors, firstcolor, ncolors): the version
\* it leaves in *palette, the status it returns and how many colors it
\* copies.  (The colors themselves are not modelled.)
SDL_SetPaletteColors(palette, firstcolor, ncolors) ==
    IF palette = NullPalette THEN [version |-> 0, status |-> 0 - 1, copied |-> 0]
    ELSE LET clamp == ncolors > palettes[palette].ncolors - firstcolor
             n == IF clamp THEN palettes[palette].ncolors - firstcolor ELSE ncolors
             version == ToUint32(palettes[palette].version + 1)
         IN  [version |-> IF version = 0 THEN 1 ELSE version,
              status |-> IF clamp THEN 0 - 1 ELSE 0,
              copied |-> n]

\* SDL_InvalidateMap(map) on a non-null map.
SDL_InvalidateMap == ResetMap

\* palette->version, read through a palette pointer that may be NULL
\* (recorded as 0 then).
VersionOf(palette) ==
    IF palette = NullPalette THEN 0 ELSE palettes[palette].version

\* The palette pointer of a surface: NULL until its palette is created.
SurfacePalette(p) == IF palettes[p].live THEN p ELSE NullPalette

\* Whether SDL_MapSurface returns -1 before it records anything: src and dst
\* are [indexed, palette]; identical is what Map1to1 reports of the two
\* color tables, calloc whether its SDL_calloc succeeds.
MapSurfaceFails(src, dst, identical, calloc) ==
    IF src.indexed
    THEN IF dst.indexed
         THEN /\ src.palette # NullPalette /\ dst.palette # NullPalette
              /\ ~identical /\ ~calloc
         ELSE src.palette = NullPalette \/ ~calloc
    ELSE IF dst.indexed
         THEN dst.palette = NullPalette \/ (~identical /\ ~calloc)
         ELSE FALSE

\* SDL_MapSurface(src, dst): the map of src it leaves.
SDL_MapSurface(src, dst, identical, calloc) ==
    IF MapSurfaceFails(src, dst, identical, calloc) THEN SDL_InvalidateMap
    ELSE [dst |-> TRUE,
          src_palette_version |-> VersionOf(src.palette),
          dst_palette_version |-> VersionOf(dst.palette)]

\* The resampler is idle while the palette functions run.
InitPixels ==
    /\ offset = 0
    /\ rate = One
    /\ call = NoCall
    /\ prior = NoCall
    /\ NoPlanning
    /\ has_sse = FALSE
    /\ NotSetUp
    /\ NoPixels

\* Palette pointers a caller can hold: NULL and the palettes created.
PalettePointers == {NullPalette} \cup { p \in PaletteIds : palettes[p].live }

\* SDL_CreatePalette(ncolors) for one of the surfaces; malloc: whether both
\* allocations succeed.
CreatePalette ==
    \E ncolors \in PaletteSizes, malloc \in BOOLEAN, p \in PaletteIds :
        /\ ~palettes[p].live
        /\ IF ncolors < 1 \/ ~malloc
           THEN /\ op' = [made |-> TRUE, name |-> "SDL_CreatePalette",
                          ret |-> NullPalette]
                /\ UNCHANGED palettes
           ELSE /\ palettes' = [palettes EXCEPT ![p] =
                                   [live |-> TRUE, ncolors |-> ncolors,
                                    version |-> 1, refcount |-> 1]]
                /\ op' = [made |-> TRUE, name |-> "SDL_CreatePalette", ret |-> p]
        /\ UNCHANGED <<map, streamVars, planVars, staticVars, frame, threadVars>>

\* SDL_SetPaletteColors(palette, colors, firstcolor, ncolors): the whole
\* palette from its first or from its second color.
SetPaletteColors ==
    \E palette \in PalettePointers, firstcolor \in {0, 1},
       ncolors \in PaletteSizes :
        /\ LET r == SDL_SetPaletteColors(palette, firstcolor, ncolors)
           IN  /\ palettes' =
                      IF palette = NullPalette THEN palettes
                      ELSE [palettes EXCEPT ![palette].version = r.version]
               /\ op' = [made |-> TRUE, name |-> "SDL_SetPaletteColors",
                         palette |-> palette, before |-> VersionOf(palette),
                         ret |-> r.status]
        /\ UNCHANGED <<map, streamVars, planVars, staticVars, frame, threadVars>>

\* SDL_InvalidateMap(map); a NULL map is left alone.
InvalidateMap ==
    \E null \in BOOLEAN :
        /\ map' = IF null THEN map ELSE SDL_InvalidateMap
        /\ op' = [made |-> TRUE, name |-> "SDL_InvalidateMap", null |-> null]
        /\ UNCHANGED <<palettes, streamVars, planVars, staticVars, frame, threadVars>>

\* SDL_MapSurface(src, dst) on the two surfaces, whatever their formats.
MapSurface ==
    \E src_indexed \in BOOLEAN, dst_indexed \in BOOLEAN,
       identical \in BOOLEAN, calloc \in BOOLEAN :
        LET src == [indexed |-> src_indexed, palette |-> SurfacePalette(SrcPalette)]
            dst == [indexed |-> dst_indexed, palette |-> SurfacePalette(DstPalette)]
        IN  /\ map' = SDL_MapSurface(src, dst, identical, calloc)
            /\ op' = [made |-> TRUE, name |-> "SDL_MapSurface",
                      ret |-> IF MapSurfaceFails(src, dst, identical, calloc)
                              THEN 0 - 1 ELSE 0]
            /\ UNCHANGED <<palettes, streamVars, planVars, staticVars, frame, threadVars>>

NextPixels == CreatePalette \/ SetPaletteColors \/ InvalidateMap \/ MapSurface

SpecPixels == InitPixels /\ [][NextPixels]_vars

(* ------------------------------------------------------------------ *)
(* Properties of the driver                                            *)
(* ------------------------------------------------------------------ *)

\* What a call saw per output frame, as absolute input-frame index (base is
\* the absolute index of the call's first live frame), filter row position
\* and interpolation numerator.
Seen(visits, base) ==
    [k \in 1..Len(visits) |->
        <<base + visits[k].srcindex, visits[k].filter, visits[k].interp>>]

\* C1: phase bookkeeping.  For every driver call with rate > 0 and
\* outframes >= 0 that does not overflow, the offset stored on return plus
\* (inframes << 32) equals the offset passed in plus outframes * rate; with
\* rate == 1 << 32 and inframes == outframes the offset comes back unchanged.
C1_PhaseBookkeeping ==
    call.made =>
        /\ call.after + call.inframes * One
               = call.before + call.outframes * call.rate
        /\ (call.rate = One /\ call.inframes = call.outframes)
               => call.after = call.before

C1_Witness ==
    /\ call.made /\ ~call.planned
    /\ call.outframes >= 2 /\ call.inframes >= 1
    /\ call.rate # One
    /\ call.after # call.before

\* C2: chunk invariance.  A planned call for N1 frames followed, at the same
\* rate and with the offset the first call left, by a call for N2 frames
\* that starts inframes(first) frames later sees, output frame by output
\* frame, the same absolute input index, filter row and interpolation
\* numerator as one call for N1 + N2 frames from the first call's offset
\* (when that one call does not overflow the phase).
C2_WholeCall ==
    SDL_ResampleAudio(prior.inframes + call.inframes,
                      prior.outframes + call.outframes,
                      call.rate, prior.before)

C2_ChunkInvariance ==
    (call.made /\ prior.made /\ prior.planned /\ ~C2_WholeCall.ub) =>
        /\ call.before = prior.after
        /\ Seen(C2_WholeCall.visits, 0)
               = Seen(prior.visits, 0) \o Seen(call.visits, prior.inframes)

C2_Witness ==
    /\ call.made /\ prior.made /\ prior.planned /\ ~C2_WholeCall.ub
    /\ prior.outframes >= 2 /\ call.outframes >= 2
    /\ prior.inframes >= 1
    /\ prior.before % One # 0
    /\ call.rate % One # 0

\* Every sample the kernel reads during the call lies in frames [lo, hi)
\* relative to the first live frame, whatever the channel count.
ReadsWithin(lo, hi) ==
    \A k \in 1..Len(call.visits), chans \in 1..ResampleFrameEntries :
        \A s \in KernelReads(call.visits[k].srcindex, chans) :
            lo * chans <= s /\ s < hi * chans

C4_AssertionHolds ==
    call.made => \A k \in 1..Len(call.visits) : call.visits[k].asserted

\* A call whose offset was left by a call at a higher rate.
C4_Witness ==
    /\ call.made /\ call.planned
    /\ call.outframes >= 2
    /\ call.before >= call.rate
    /\ call.rate < One

(* ------------------------------------------------------------------ *)
(* Properties of the planning helpers                                  *)
(* ------------------------------------------------------------------ *)

Abs(a) == IF a >= 0 THEN a ELSE -a

\* The least k >= 0 with k * d >= n, for n > 0 and d > 0.
CeilDiv(n, d) == CHOOSE k \in 1..n : k * d >= n /\ (k - 1) * d < n

\* C5: planning duality.  For N >= 0, rate > 0 and |offset| < rate, with
\* no saturation, output_frames_for(input_frames_for(N, rate, offset), rate,
\* &offset') returns at least N.
C5_PlanningDuality ==
    (/\ inres.made /\ outres.made
     /\ Abs(inres.offset) < rate
     /\ ~inres.saturated /\ ~outres.saturated)
        => outres.frames >= frames

C5_Witness ==
    /\ inres.made /\ outres.made
    /\ Abs(inres.offset) < rate /\ inres.offset < 0
    /\ ~inres.saturated /\ ~outres.saturated
    /\ frames >= 2
    /\ outres.input_frames >= 1
    /\ outres.frames = frames

\* The multiply output_frames * rate, or the add that follows it, leaves
\* the signed 64-bit range.
C6_Overflows ==
    \/ frames * rate > SDL_MAX_SINT64
    \/ frames * rate + (-rate + inres.offset + One) > SDL_MAX_SINT64

\* C6 as stated: whenever the multiply or the add overflows,
\* input_frames_for returns INT64_MAX.
C6_SaturatesToMaxSint64 ==
    (inres.made /\ C6_Overflows) => inres.frames = SDL_MAX_SINT64

\* C6 amended: whenever the multiply or the add overflows, output_offset is
\* replaced by INT64_MAX and input_frames_for returns INT64_MAX >> 32, the
\* largest Sint32.
C6_SaturatesToMaxSint32 ==
    (inres.made /\ C6_Overflows) =>
        /\ inres.saturated
        /\ inres.frames = ShiftRight(SDL_MAX_SINT64, FracBits)
        /\ inres.frames = SDL_MAX_SINT32

\* input_frames_for(INT64_MAX / 2, 1 << 32, 0).
C6_Witness ==
    /\ inres.made
    /\ frames = SDL_MAX_SINT64 \div 2 /\ rate = One /\ inres.offset = 0
    /\ C6_Overflows
    /\ inres.frames = SDL_MAX_SINT32

\* C7 as stated: when no step overflows, input_frames_for(N, rate, offset)
\* equals max(0, ((N - 1) * rate + offset + (2^32 - rate)) >> 32).
C7_InputFramesFormula ==
    (inres.made /\ ~inres.saturated /\ ~inres.ub) =>
        inres.frames
            = Max(0, ShiftRight((frames - 1) * rate + inres.offset
                                    + (One - rate), FracBits))

\* C7 amended: when no step overflows, input_frames_for(N, rate, offset)
\* equals max(0, (N * rate + offset + (2^32 - rate)) >> 32), which is
\* max(0, (((N - 1) * rate + offset) >> 32) + 1): the rate is taken off
\* once, not twice.
C7_InputFramesAmended ==
    (inres.made /\ ~inres.saturated /\ ~inres.ub) =>
        /\ inres.frames
               = Max(0, ShiftRight(frames * rate + inres.offset
                                       + (One - rate), FracBits))
        /\ inres.frames
               = Max(0, ShiftRight((frames - 1) * rate + inres.offset,
                                   FracBits) + 1)

C7_Witness ==
    /\ inres.made /\ ~inres.saturated /\ ~inres.ub
    /\ frames >= 2 /\ inres.offset < 0 /\ rate % One # 0
    /\ inres.frames >= 2

\* C8: for M >= 0 and rate > 0 with no overflow, output_frames_for computes
\* input_offset = (M << 32) - offset, returns 0 when input_offset <= 0 and
\* ceil(input_offset / rate) otherwise, and stores
\* returned_count * rate - input_offset as the caller's offset.
C8_OutputFramesFormula ==
    (/\ outres.made /\ outres.input_frames >= 0
     /\ ~outres.saturated /\ ~outres.ub_helpers /\ ~outres.ub_update) =>
        LET input_offset == outres.input_frames * One - outres.before
        IN  /\ outres.input_offset = input_offset
            /\ outres.frames
                   = (IF input_offset <= 0 THEN 0
                      ELSE CeilDiv(input_offset, rate))
            /\ outres.after = outres.frames * rate - input_offset
            /\ offset = outres.after

C8_Witness ==
    /\ outres.made /\ ~inres.made
    /\ ~outres.saturated /\ ~outres.ub_helpers /\ ~outres.ub_update
    /\ outres.input_frames >= 2
    /\ outres.before > 0
    /\ outres.frames >= 2
    /\ (outres.input_frames * One - outres.before) % rate # 0

\* C9: output_frames_for never overflows silently: for M >= 0, rate > 0 and
\* |offset| < rate every arithmetic step yields its exact value inside the
\* signed 64-bit range or is replaced by INT64_MAX.
C9_NoSilentOverflow ==
    (outres.made /\ outres.input_frames >= 0 /\ Abs(outres.before) < rate)
        => (~outres.ub_helpers /\ ~outres.ub_update)

(* ------------------------------------------------------------------ *)
(* Properties of the rate                                              *)
(* ------------------------------------------------------------------ *)

\* C10: for every pair of positive int sample rates, (src_rate << 32) /
\* dst_rate is computed inside the signed 64-bit range, equals
\* floor(src_rate * 2^32 / dst_rate), is strictly positive, and is 1 << 32
\* when the two rates are equal.
C10_RatePositive ==
    conv.made =>
        /\ ~conv.ub
        /\ IsSint64(conv.rate)
        /\ conv.rate = (conv.src_rate * One) \div conv.dst_rate
        /\ conv.rate > 0
        /\ (conv.src_rate = conv.dst_rate => conv.rate = One)

C10_Witness ==
    /\ conv.made
    /\ conv.src_rate = SDL_MAX_SINT32 /\ conv.dst_rate = SDL_MAX_SINT32
    /\ conv.rate = One

(* ------------------------------------------------------------------ *)
(* Properties of the rate at the width of the code                     *)
(* ------------------------------------------------------------------ *)

\* C11 as stated: the rate for 48000 -> 44100 is exactly 0x116A3B35E,
\* bytes 00 00 00 01 16 A3 B3 5E.
C11_RateIs116A3B35E ==
    (conv.made /\ conv.src_rate = 48000 /\ conv.dst_rate = 44100)
        => conv.bytes = <<0, 0, 0, 1, 22, 163, 179, 94>>

\* C11 amended: the rate for 48000 -> 44100 is exactly 0x116A3B35F,
\* bytes 00 00 00 01 16 A3 B3 5F.
C11_RateIs116A3B35F ==
    (conv.made /\ conv.src_rate = 48000 /\ conv.dst_rate = 44100)
        => conv.bytes = <<0, 0, 0, 1, 22, 163, 179, 95>>

C11_Witness ==
    conv.made /\ conv.src_rate = 48000 /\ conv.dst_rate = 44100

(* ------------------------------------------------------------------ *)
(* Properties of the history and padding queries                       *)
(* ------------------------------------------------------------------ *)

\* C12: history_frames() is 6 (Z + 1) whatever was called before;
\* padding_frames(rate) is 6 when rate is not 0 and 0 when it is; so the
\* padding never exceeds the history.
C12_HistoryAndPadding ==
    query.made =>
        /\ query.history = 6
        /\ query.history = RESAMPLER_ZERO_CROSSINGS + 1
        /\ (query.resample_rate # 0 => query.padding = 6)
        /\ (query.resample_rate = 0 => query.padding = 0)
        /\ query.padding <= query.history

C12_Witness ==
    /\ conv.made
    /\ query.made
    /\ query.resample_rate < 0

(* ------------------------------------------------------------------ *)
(* Properties tying the input planner to the driver                    *)
(* ------------------------------------------------------------------ *)

\* C16: when no step overflows, input_frames_for(N, rate, offset) is
\* max(0, 1 + floor(((N - 1) * rate + offset) / 2^32)), which is one more
\* than the input index the driver uses for the last of N output frames,
\* and the (Sint32) cast of output_offset >> 32 leaves the value as it is.
C16_LastIndexPlusOne ==
    (inres.made /\ ~inres.saturated /\ ~inres.ub) =>
        LET shifted == ShiftRight(inres.output_offset, FracBits)
            driver == SDL_ResampleAudio(inres.frames, frames, rate, inres.offset)
        IN  /\ ToSint32(shifted) = shifted
            /\ inres.frames
                   = Max(0, 1 + (((frames - 1) * rate + inres.offset) \div One))
            /\ (frames \in 1..MaxPlanFrames /\ ~driver.ub) =>
                   inres.frames = Max(0, driver.visits[frames].srcindex + 1)

C16_Witness ==
    /\ inres.made /\ ~inres.saturated /\ ~inres.ub
    /\ frames \in 2..MaxPlanFrames
    /\ rate % One # 0
    /\ ~SDL_ResampleAudio(inres.frames, frames, rate, inres.offset).ub
    /\ inres.frames >= 2

(* ------------------------------------------------------------------ *)
(* Properties of setup and dispatch                                    *)
(* ------------------------------------------------------------------ *)

\* C13: in any sequence of setup(), planning and driver calls the filter
\* bank and the dispatch table are written only by the first setup();
\* later setup() calls return without writing, and no planning or driver
\* call writes them.
C13_SetupIdempotent ==
    [][(\/ ResamplerFilter' # ResamplerFilter
        \/ ResampleFrame' # ResampleFrame
        \/ writes' # writes)
           => (/\ setup_calls = 0 /\ setup_calls' = 1
               /\ ~setup /\ setup'
               /\ writes = 0 /\ writes' = 1)]_vars

C13_Witness ==
    /\ setup_calls >= 2
    /\ writes = 1
    /\ frame.made
    /\ inres.made

\* C17: after setup all 8 table entries are set: without SIMD entry 0 is
\* the mono kernel, entry 1 the stereo kernel and entries 2..7 the generic
\* kernel; with SIMD all 8 are the SSE kernel.  The driver takes entry
\* C - 1, which is inside the table exactly for C in 1..8.
C17_KernelDispatch ==
    /\ setup =>
        /\ DOMAIN ResampleFrame = 0..(ResampleFrameEntries - 1)
        /\ \A x \in DOMAIN ResampleFrame : ResampleFrame[x] # "NULL"
        /\ ~has_sse =>
            /\ ResampleFrame[0] = "ResampleFrame_Mono"
            /\ ResampleFrame[1] = "ResampleFrame_Stereo"
            /\ \A x \in 2..(ResampleFrameEntries - 1) :
                   ResampleFrame[x] = "ResampleFrame_Generic"
        /\ has_sse =>
            \A x \in DOMAIN ResampleFrame :
                ResampleFrame[x] = "ResampleFrame_Generic_SSE"
    /\ frame.made =>
        /\ setup
        /\ ~frame.oob <=> frame.chans \in 1..ResampleFrameEntries
        /\ ~frame.oob => frame.kernel = ResampleFrame[frame.chans - 1]

C17_Witness ==
    /\ frame.made
    /\ frame.oob
    /\ frame.chans = ResampleFrameEntries + 1
    /\ has_sse

(* ------------------------------------------------------------------ *)
(* Properties of the kernels                                           *)
(* ------------------------------------------------------------------ *)

\* The coefficients of the bank that are the n = 0 (unit) wing sample,
\* among the taps of the terms of one stored value, for a filter pointer.
UnitTerms(value, filter) ==
    { t \in BagToSet(value) : ResamplerFilter[filter + t[2][1]] = 0 }

\* C15: with rate = 1 << 32 and offset = 0, output frame k of a call uses
\* input index k, filter row 0 and interpolation weight 0; row 0 has one
\* unit (n = 0) coefficient, at tap Z - 1, and every kernel multiplies it
\* with the sample Z - 1 frames past the frame pointer, which from the
\* shifted base is live input frame k.
C15_IdentityAlignment ==
    (call.made /\ call.rate = One /\ call.before = 0) =>
        \A k \in 1..Len(call.visits) :
            LET v == call.visits[k]
            IN  /\ v.srcindex = k - 1
                /\ v.filter = 0
                /\ v.interp = 0
                /\ \A chans \in 1..ResampleFrameEntries, sse \in BOOLEAN :
                       LET out == CallKernel(SetupTable(sse)[chans - 1], chans)
                       IN  \A j \in 1..Len(out.stores) :
                               LET chan == out.stores[j][1]
                                   unit == UnitTerms(out.stores[j][2], v.filter)
                               IN  /\ Cardinality(unit) = 1
                                   /\ \A t \in unit :
                                       /\ t[2][1] = RESAMPLER_ZERO_CROSSINGS - 1
                                       /\ t[1] = (RESAMPLER_ZERO_CROSSINGS - 1) * chans + chan
                                       /\ FramePointer(v.srcindex, chans) + t[1]
                                              = (k - 1) * chans + chan

C15_Witness ==
    /\ call.made /\ call.rate = One /\ call.before = 0
    /\ call.outframes >= 2
    /\ setup
    /\ ResamplerFilter[RESAMPLER_ZERO_CROSSINGS - 1] = 0

\* The value the claim gives dst[chan]: one term per tap i in 0..9,
\* src[i * chans + chan] times the blend of filter[i] and filter[i + 10].
ExpectedSum(chan, chans) ==
    SetToBag({ <<i * chans + chan, <<i, i + RESAMPLER_SAMPLES_PER_FRAME>>>> :
                 i \in 0..(RESAMPLER_SAMPLES_PER_FRAME - 1) })

\* C18: for C in 1..8 every kernel the table can hold for C (the SSE kernel
\* on each of its paths, the mono, stereo and generic kernels) stores to
\* dst[0..C-1] once each, dst[c] being the sum over taps i of
\* src[i * C + c] * blend[i], the same terms the generic kernel sums.
C18_KernelEquivalence ==
    (frame.made /\ ~frame.oob) =>
        LET stores == frame.out.stores
            generic == ResampleFrame_Generic(frame.chans).stores
        IN  /\ Len(stores) = frame.chans
            /\ { stores[j][1] : j \in 1..Len(stores) } = 0..(frame.chans - 1)
            /\ \A j \in 1..Len(stores) :
                   /\ stores[j][2] = ExpectedSum(stores[j][1], frame.chans)
                   /\ \E g \in 1..Len(generic) : generic[g] = stores[j]

C18_Witness ==
    /\ frame.made /\ ~frame.oob
    /\ frame.kernel = "ResampleFrame_Generic_SSE"
    /\ frame.chans = 7
    /\ Len(frame.out.stores) = 7

\* C19: for C in 1..8 every kernel reads src only at indices in [0, 10*C)
\* and filter only at indices in [0, 20).
C19_KernelReadBounds ==
    (frame.made /\ ~frame.oob) =>
        /\ frame.out.src_reads # {}
        /\ frame.out.filter_reads # {}
        /\ \A s \in frame.out.src_reads :
               0 <= s /\ s < RESAMPLER_SAMPLES_PER_FRAME * frame.chans
        /\ \A f \in frame.out.filter_reads :
               0 <= f /\ f < 2 * RESAMPLER_SAMPLES_PER_FRAME

C19_Witness ==
    /\ frame.made /\ ~frame.oob
    /\ frame.kernel = "ResampleFrame_Generic_SSE"
    /\ frame.chans = 5
    /\ (RESAMPLER_SAMPLES_PER_FRAME * 5) - 1 \in frame.out.src_reads
    /\ (2 * RESAMPLER_SAMPLES_PER_FRAME) - 1 \in frame.out.filter_reads

\* C20: for every phase the driver takes frac, the low fraction bits;
\* row_index = frac >> INTERP_BITS lies in [0, P - 1], the numerator
\* frac & (2^INTERP_BITS - 1) in [0, 2^INTERP_BITS), frac is
\* row_index * 2^INTERP_BITS + numerator, and rows row_index and
\* row_index + 1 lie inside the (P + 1) * T entries of the bank.
C20_PhaseDecomposition ==
    (frame.made /\ ~frame.ub) =>
        \A k \in 1..Len(frame.visits) :
            LET v == frame.visits[k]
                phase == frame.before + (k - 1) * rate
                frac == phase % One
                row_index == v.filter \div RESAMPLER_SAMPLES_PER_FRAME
            IN  /\ v.filter = row_index * RESAMPLER_SAMPLES_PER_FRAME
                /\ 0 <= row_index
                /\ row_index <= RESAMPLER_SAMPLES_PER_ZERO_CROSSING - 1
                /\ 0 <= v.interp /\ v.interp < RESAMPLER_FILTER_INTERP_RANGE
                /\ frac = row_index * RESAMPLER_FILTER_INTERP_RANGE + v.interp
                /\ v.filter + 2 * RESAMPLER_SAMPLES_PER_FRAME
                       <= (RESAMPLER_SAMPLES_PER_ZERO_CROSSING + 1)
                              * RESAMPLER_SAMPLES_PER_FRAME
                /\ \A f \in frame.out.filter_reads :
                       v.filter + f \in DOMAIN ResamplerFilter

C20_Witness ==
    /\ frame.made /\ ~frame.ub
    /\ frame.before < 0
    /\ frame.visits[1].filter
           = (RESAMPLER_SAMPLES_PER_ZERO_CROSSING - 1) * RESAMPLER_SAMPLES_PER_FRAME
    /\ frame.visits[1].interp = RESAMPLER_FILTER_INTERP_RANGE - 1

(* ------------------------------------------------------------------ *)
(* Properties of concurrent driver calls                               *)
(* ------------------------------------------------------------------ *)

\* C14: after setup, threads running the driver at the same time on their
\* own dst buffers and offset cells interleave freely: the shared filter
\* bank and dispatch table stay as setup left them, every dst buffer and
\* offset cell is stored to by its own thread only, and each thread ends
\* with the indices, rows and weights, and the offset, of the same call
\* made alone.
C14_ThreadsIndependent ==
    /\ ResamplerFilter = GenerateResamplerFilter
    /\ ResampleFrame = SetupTable(has_sse)
    /\ writes = 1
    /\ \A t \in DOMAIN threads :
           LET a == threads[t]
               alone == SDL_ResampleAudio(a.inframes, a.outframes, a.rate, a.before)
           IN  /\ ~alone.ub
               /\ memory.offset_writers[OffsetCell(t)] \subseteq {t}
               /\ \A w \in memory.dst_writers[DstBuffer(t)] : w[2] = t
               /\ a.pc # "done" => memory.offset[OffsetCell(t)] = a.before
               /\ a.pc = "done" =>
                   /\ a.visits = alone.visits
                   /\ memory.offset[OffsetCell(t)] = alone.offset
                   /\ { w[1] : w \in memory.dst_writers[DstBuffer(t)] }
                          = 0..(a.outframes * a.chans - 1)

C14_Witness ==
    /\ threads # <<>>
    /\ \A t \in DOMAIN threads :
           /\ threads[t].pc = "done"
           /\ Len(threads[t].visits) >= 2
    /\ \E t, u \in DOMAIN threads : threads[t].visits # threads[u].visits

(* ------------------------------------------------------------------ *)
(* Properties of the filter bank                                       *)
(* ------------------------------------------------------------------ *)

\* The index of tap i of row p of the bank.
BankIndex(p, i) == p * RESAMPLER_SAMPLES_PER_FRAME + i

\* The set of the elements of a sequence.
Range(seq) == { seq[k] : k \in 1..Len(seq) }

\* C21: after generation bank[p*T + i] = bank[(P - p)*T + (T - 1 - i)] for
\* every row p in 1..P-1 and every tap i in 0..T-1, both entries holding
\* the coefficient of the same wing sample n.
C21_BankSymmetry ==
    setup =>
        \A p \in 1..(RESAMPLER_SAMPLES_PER_ZERO_CROSSING - 1),
           i \in 0..(RESAMPLER_SAMPLES_PER_FRAME - 1) :
            /\ ResamplerFilter[BankIndex(p, i)] # ZeroCoef
            /\ ResamplerFilter[BankIndex(p, i)]
                   = ResamplerFilter[BankIndex(RESAMPLER_SAMPLES_PER_ZERO_CROSSING - p,
                                               RESAMPLER_SAMPLES_PER_FRAME - 1 - i)]

C21_Witness ==
    /\ setup
    /\ ResamplerFilter[BankIndex(1, 0)]
           = (RESAMPLER_ZERO_CROSSINGS - 1) * RESAMPLER_SAMPLES_PER_ZERO_CROSSING + 1
    /\ ResamplerFilter[BankIndex(RESAMPLER_SAMPLES_PER_ZERO_CROSSING - 1,
                                 RESAMPLER_SAMPLES_PER_FRAME - 1)]
           = (RESAMPLER_ZERO_CROSSINGS - 1) * RESAMPLER_SAMPLES_PER_ZERO_CROSSING + 1

\* C22 as stated: the final pass zeroes the Z entries at each end of the
\* flat table, indices 0..Z-1 and T*(P+1)-Z..T*(P+1)-1.
C22_ZeroesOutermost ==
    setup =>
        LET ends == (0..(RESAMPLER_ZERO_CROSSINGS - 1))
                        \cup ((RESAMPLER_FILTER_SIZE - RESAMPLER_ZERO_CROSSINGS)
                                  ..(RESAMPLER_FILTER_SIZE - 1))
        IN  Range(generation.zeroed) = ends

\* C22 amended: the final pass zeroes 2*Z entries, the right half of the
\* first row and the left half of the last row: indices Z..2Z-1 and
\* T*P..T*P+Z-1, which hold 0.0f afterwards.
C22_ZeroesInnerHalves ==
    setup =>
        LET halves == (RESAMPLER_ZERO_CROSSINGS..(2 * RESAMPLER_ZERO_CROSSINGS - 1))
                          \cup (BankIndex(RESAMPLER_SAMPLES_PER_ZERO_CROSSING, 0)
                                    ..BankIndex(RESAMPLER_SAMPLES_PER_ZERO_CROSSING,
                                                RESAMPLER_ZERO_CROSSINGS - 1))
        IN  /\ Len(generation.zeroed) = 2 * RESAMPLER_ZERO_CROSSINGS
            /\ Range(generation.zeroed) = halves
            /\ \A x \in halves : ResamplerFilter[x] = ZeroCoef

C22_Witness ==
    /\ setup
    /\ generation.made
    /\ ResamplerFilter[RESAMPLER_ZERO_CROSSINGS] = ZeroCoef
    /\ ResamplerFilter[RESAMPLER_ZERO_CROSSINGS - 1] = 0
    /\ ResamplerFilter[RESAMPLER_FILTER_SIZE - 1] # ZeroCoef

\* C30: generation assigns every one of the T*(P+1) entries exactly once:
\* left-wing stores cover taps 0..Z-1 of rows 0..P-1, right-wing stores
\* taps Z..2Z-1 of rows 1..P, and the final pass the rest (taps Z..2Z-1 of
\* row 0 and taps 0..Z-1 of row P); the Kaiser lookups read entries in
\* [0, K+2] only, and every index used is inside its array.
C30_BankCoverage ==
    generation.made =>
        LET P == RESAMPLER_SAMPLES_PER_ZERO_CROSSING
            Z == RESAMPLER_ZERO_CROSSINGS
            left == { BankIndex(p, i) : p \in 0..(P - 1), i \in 0..(Z - 1) }
            right == { BankIndex(p, i) : p \in 1..P, i \in Z..(2 * Z - 1) }
            rest == { BankIndex(0, i) : i \in Z..(2 * Z - 1) }
                        \cup { BankIndex(P, i) : i \in 0..(Z - 1) }
        IN  /\ Range(generation.lwing) = left
            /\ Range(generation.rwing) = right
            /\ Range(generation.zeroed) = rest
            /\ Len(generation.lwing) + Len(generation.rwing) + Len(generation.zeroed)
                   = RESAMPLER_FILTER_SIZE
            /\ left \cup right \cup rest = 0..(RESAMPLER_FILTER_SIZE - 1)
            /\ DOMAIN ResamplerFilter = 0..(RESAMPLER_FILTER_SIZE - 1)
            /\ generation.kaiser_loads # {}
            /\ generation.kaiser_loads \subseteq 0..(KAISER_TABLE_SIZE + 2)
            /\ generation.kaiser_loads \subseteq Range(generation.kaiser_stores)
            /\ Range(generation.kaiser_stores) = 0..(KaiserEntries - 1)

C30_Witness ==
    /\ generation.made
    /\ setup_calls >= 2
    /\ KAISER_TABLE_SIZE + 2 \in generation.kaiser_loads
    /\ Len(generation.lwing)
           = RESAMPLER_SAMPLES_PER_ZERO_CROSSING * RESAMPLER_ZERO_CROSSINGS

(* ------------------------------------------------------------------ *)
(* Properties of the driver's reads                                    *)
(* ------------------------------------------------------------------ *)

\* The input frames, relative to the first live frame, that a kernel
\* reads when the driver calls it for input index srcindex.
FramesRead(kernel, srcindex, chans) ==
    { (FramePointer(srcindex, chans) + s) \div chans :
        s \in CallKernel(kernel, chans).src_reads }

\* C23: for an output computed at input index srcindex the kernel reads
\* exactly frames srcindex - (Z-1) .. srcindex + Z; so in a call whose
\* indices all lie in [-1, M) every read lies in [-Z, M + Z - 1], inside
\* the padding_frames() = Z + 1 frames before the first and after the last
\* live frame.
C23_ReadRange ==
    call.made =>
        \A k \in 1..Len(call.visits), chans \in 1..ResampleFrameEntries,
           sse \in BOOLEAN :
            LET srcindex == call.visits[k].srcindex
                read == FramesRead(SetupTable(sse)[chans - 1], srcindex, chans)
                padding == SDL_GetResamplerPaddingFrames(call.rate)
            IN  /\ read = (srcindex - (RESAMPLER_ZERO_CROSSINGS - 1))
                              ..(srcindex + RESAMPLER_ZERO_CROSSINGS)
                /\ (\A j \in 1..Len(call.visits) : call.visits[j].asserted) =>
                       /\ read \subseteq (-RESAMPLER_ZERO_CROSSINGS)
                              ..(call.inframes + RESAMPLER_ZERO_CROSSINGS - 1)
                       /\ padding = RESAMPLER_ZERO_CROSSINGS + 1
                       /\ read \subseteq (-padding)..(call.inframes + padding - 1)

C23_Witness ==
    /\ call.made
    /\ call.outframes >= 2
    /\ \A j \in 1..Len(call.visits) : call.visits[j].asserted
    /\ call.visits[1].srcindex = -1
    /\ call.visits[call.outframes].srcindex = call.inframes - 1
    /\ call.inframes >= 1

(* ------------------------------------------------------------------ *)
(* Properties tying the output planner to the driver                   *)
(* ------------------------------------------------------------------ *)

\* C24: when N = output_frames_for(M, rate, &o1) is asked on a copy o1 of
\* the offset and the driver is then called with (M, N, rate, &o2) on the
\* offset itself, with no overflow, the driver leaves o2 = o1.
C24_PlannerDriverAgree ==
    (/\ call.made /\ outres.made
     /\ call.before = outres.before
     /\ call.inframes = outres.input_frames
     /\ call.outframes = outres.frames) =>
        /\ call.after = outres.after
        /\ offset = outres.after

C24_Witness ==
    /\ call.made /\ outres.made
    /\ call.inframes = outres.input_frames /\ call.inframes >= 2
    /\ call.outframes = outres.frames /\ call.outframes >= 2
    /\ call.before # 0
    /\ call.after # call.before
    /\ call.rate % One # 0

\* C25: when N = output_frames_for(M, rate, &o') is at least 1, with no
\* overflow, input_frames_for(N, rate, o) <= M: producing the planned N
\* output frames uses no input index >= M.
C25_ReversePlanning ==
    (/\ outres.made /\ inres.made /\ outres.frames >= 1
     /\ ~inres.saturated /\ ~inres.ub) =>
        /\ inres.output_frames = outres.frames
        /\ inres.offset = outres.before
        /\ inres.frames <= outres.input_frames
        /\ call.made =>
               \A k \in 1..Len(call.visits) :
                   call.visits[k].srcindex < outres.input_frames

C25_Witness ==
    /\ outres.made /\ inres.made /\ call.made
    /\ outres.frames >= 2
    /\ ~inres.saturated /\ ~inres.ub
    /\ inres.frames < outres.input_frames


\* C26: exact duality when not upsampling.  For rate >= 1 << 32, N >= 1 and
\* 0 <= offset < rate, with no saturation,
\* output_frames_for(input_frames_for(N, rate, offset), rate, &offset')
\* returns exactly N.
C26_ExactDuality ==
    (/\ inres.made /\ outres.made
     /\ rate >= One
     /\ frames >= 1
     /\ 0 <= inres.offset /\ inres.offset < rate
     /\ ~inres.saturated /\ ~outres.saturated)
        => /\ outres.input_frames = inres.frames
           /\ outres.frames = frames

C26_Witness ==
    /\ inres.made /\ outres.made
    /\ rate > One /\ rate % One # 0
    /\ frames >= 2
    /\ 0 < inres.offset /\ inres.offset < rate
    /\ ~inres.saturated /\ ~outres.saturated
    /\ outres.frames = frames
    /\ outres.after # inres.offset


(* ------------------------------------------------------------------ *)
(* Properties of the offset along a stream                             *)
(* ------------------------------------------------------------------ *)

\* C27: (a) after output_frames_for(M, rate, &offset) with a positive
\* input_offset the stored offset lies in [0, rate), and with
\* input_offset <= 0 it equals offset_before - (M << 32) and is >= 0;
\* (b) after a driver call with N >= 1 and M = input_frames_for(N, rate,
\* offset) the stored offset lies in [rate - 2^32, rate); along any sequence
\* of such calls from offset 0 the offset stays strictly above -2^32.
C27_OffsetRange ==
    /\ outres.made =>
           IF outres.input_offset > 0
           THEN 0 <= outres.after /\ outres.after < outres.rate
           ELSE /\ outres.after = outres.before - (outres.input_frames * One)
                /\ outres.after >= 0
    /\ (call.made /\ call.planned /\ call.outframes >= 1) =>
           /\ rate - One <= call.after
           /\ call.after < rate
    /\ offset > -One

C27_Witness ==
    /\ call.made /\ call.planned /\ call.outframes >= 1
    /\ call.before < 0
    /\ call.after < 0


(* ------------------------------------------------------------------ *)
(* Properties of two concurrent first setups                           *)
(* ------------------------------------------------------------------ *)

\* A table entry that does for chans channels what the generic kernel does.
ValidKernel(kernel, chans) ==
    /\ kernel \in KernelNames
    /\ LET stores == CallKernel(kernel, chans).stores
           generic == CallKernel("ResampleFrame_Generic", chans).stores
       IN  Range(stores) = Range(generic)

C29_PaletteVersion ==
    /\ \A p \in PaletteIds : palettes[p].live => palettes[p].version # 0
    /\ (op.made /\ op.name = "SDL_CreatePalette" /\ op.ret # NullPalette) =>
           palettes[op.ret].version = 1
    /\ (op.made /\ op.name = "SDL_SetPaletteColors" /\ op.palette # NullPalette) =>
           /\ op.ret \in {0, 0 - 1}
           /\ palettes[op.palette].version =
                  IF op.before + 1 = 2 ^ VersionBits THEN 1 ELSE op.before + 1
    /\ (op.made /\ op.name = "SDL_InvalidateMap" /\ ~op.null) =>
           /\ map.src_palette_version = 0
           /\ map.dst_palette_version = 0
           /\ \A p \in PaletteIds :
                  palettes[p].live =>
                      /\ palettes[p].version # map.src_palette_version
                      /\ palettes[p].version # map.dst_palette_version
    /\ (op.made /\ op.name = "SDL_MapSurface" /\ op.ret = 0) =>
           /\ palettes[SrcPalette].live =>
                  map.src_palette_version = palettes[SrcPalette].version
           /\ palettes[DstPalette].live =>
                  map.dst_palette_version = palettes[DstPalette].version

C29_Witness ==
    /\ op.made /\ op.name = "SDL_SetPaletteColors"
    /\ op.palette # NullPalette
    /\ op.before = (2 ^ VersionBits) - 1
    /\ op.ret = 0 - 1
    /\ palettes[op.palette].version = 1
    /\ map.dst
    /\ map.src_palette_version = (2 ^ VersionBits) - 1
    /\ map.dst_palette_version = 1

====
